---- MODULE Spec2Model ----
(***************************************************************************)
(* Model of the generators of back-ms-users:                               *)
(*   libs/pygenerate-schemasgen/schema_converter.py  (SchemaConverter)     *)
(*   libs/pyjava-backend-codegen/core/openapi_processor.py                 *)
(*                                                    (OpenApiProcessor)   *)
(*   libs/utils/mapper_field_analyzer.py          (MapperFieldAnalyzer)    *)
(*   libs/pyjava-springboot-backend-codegen/generators/                    *)
(*       application_generator.py                 (ApplicationGenerator)   *)
(*   libs/pyfake-datagen/*.py                     (FakeDataGenerator)      *)
(*                                                                         *)
(* Python values are represented as follows.                               *)
(*   str    a sequence of one-character strings, so that startswith,       *)
(*          endswith, split and concatenation are computed, not assumed;   *)
(*          dictionary keys fixed by the code ("type", "$ref", ...) and    *)
(*          JSON type names ("string", "null", ...) are TLA+ strings.      *)
(*   dict   a function whose DOMAIN is the set of keys that are present.   *)
(*   list   a sequence.                                                    *)
(*   "type" is a string or a list in Python; here a record                 *)
(*          [list |-> BOOLEAN, v |-> sequence of type names].              *)
(*   "additionalProperties" is a dict or a bool in Python; here a record   *)
(*          [dict |-> BOOLEAN, b |-> BOOLEAN, s |-> schema].               *)
(* dict.copy() is shallow: nested dicts and lists stay shared between the  *)
(* argument and the copy.  ConvertedArg computes what the caller's         *)
(* argument holds after a call because of that sharing.                    *)
(***************************************************************************)
EXTENDS Integers, Sequences, FiniteSets, TLC

VARIABLES
    pc,              \* position of the run: "start", then the names of the calls made
    openapi_schema,  \* argument of _convert_openapi_schema_to_jsonschema, as passed
    title,           \* its title argument (<<>> stands for None / empty)
    arg_after,       \* the argument object after the call returned
    json_schema,     \* the value the call returned
    json_schema2,    \* the value returned by converting json_schema again
    operation,       \* argument of _build_composite_schema
    method,          \* the HTTP method key the operation is stored under
    composite,       \* what _build_composite_schema returned ([none |-> TRUE] for None)
    composite_schemas, \* what _generate_composite_request_schemas returned
    schemas,         \* components.schemas of the document (all_schemas)
    schemas_after,   \* the same objects once the call has returned
    paths,           \* the document's operations in iteration order
    expanded,        \* what _expand_refs_in_schema returned
    converted_schemas, \* what extract_schemas_from_openapi returned
    openapi_specs,   \* OpenApiProcessor.load_openapi_specs(): the loaded documents
    service_schemas, \* first value returned by extract_schemas_and_operations (all_schemas)
    all_operations,  \* its second value: the operations in scan order
    all_entities,    \* its third value: list(set of entity names)
    entity_operations,  \* what group_operations_by_entity returned
    entity_complex_ops, \* what find_complex_operations returned
    entity_name,     \* the entity a mapper is generated for
    analyzer_schemas,   \* MapperFieldAnalyzer.schemas
    mapping_analysis,   \* what analyze_entity_mappings returned
    generator_specs, \* ApplicationGenerator.openapi_specs
    domain_fields,   \* generate_mapper: the domain_fields set
    relation_mappings,  \* generate_mapper: the relation_mappings list
    schemas_dir,     \* the *.json files of a service's schema directory
    fake_data_dir,   \* the files of its fake-data directory
    jsf,             \* what JSF(schema).generate() does for each schema file
    total_files,     \* what generate_fake_data returned
    openapi_files,   \* the *.openapi.json files load_openapi_specs finds, in glob order
    run_error,       \* the exception the run ended with, None if it returned
    call_stack,      \* the arguments of the recursive calls still to be made
    resolve_arg,     \* argument schema of _resolve_refs
    resolve_dir,     \* its schema_dir: the *.json files of one directory
    resolved,        \* what _resolve_refs returned
    openapi_dirs,    \* find_openapi_directories(): per service, its *.json files in glob order
    dir_index,       \* generate_schemas: position of the loop over the directories
    file_index,      \* position of the loop over the files of that directory
    current_schemas, \* its service_schemas: the schemas of the directory so far
    generated_schemas,  \* its all_schemas: service name -> schema name -> schema
    total_schemas,   \* its total_schemas
    generate_result, \* what generate_schemas returned
    test_entity,     \* argument of TestGenerator._find_operations_for_entity
    test_operations, \* what it returned
    dto_fields       \* the class DtoGenerator._generate_composite_request_dto emits

schemaVars == <<openapi_schema, title, arg_after, json_schema, json_schema2,
                operation, method, composite, composite_schemas,
                schemas, schemas_after, paths, expanded, converted_schemas>>

entityVars == <<openapi_specs, service_schemas, all_operations, all_entities,
                entity_operations, entity_complex_ops>>

mapperVars == <<entity_name, analyzer_schemas, mapping_analysis,
                generator_specs, domain_fields, relation_mappings>>

fakeVars == <<schemas_dir, fake_data_dir, jsf, total_files>>

loadVars == <<openapi_files, run_error>>

walkVars == <<call_stack, resolve_arg, resolve_dir, resolved>>

genVars == <<openapi_dirs, dir_index, file_index, current_schemas,
             generated_schemas, total_schemas, generate_result>>

testVars == <<test_entity, test_operations>>

dtoVars == <<dto_fields>>

runVars == <<loadVars, walkVars, genVars, testVars, dtoVars>>

vars == <<pc, schemaVars, entityVars, mapperVars, fakeVars, runVars>>

----------------------------------------------------------------------------
(* Bounds of the model *)

MaxDepth == 2      \* nesting depth of the input schemas
MaxTypeLen == 2    \* length of a "type" list in the input
MaxParams == 2     \* number of entries of an operation's parameters list

----------------------------------------------------------------------------
(* Python str and dict primitives *)

Str_Id == <<"I", "d">>
Str_id == <<"i", "d">>
Str_item == <<"i", "t", "e", "m">>
Str_additional == <<"a", "d", "d", "i", "t", "i", "o", "n", "a", "l">>
Str_body == <<"b", "o", "d", "y">>
Str_Request == <<"R", "e", "q", "u", "e", "s", "t">>
Str_Create == <<"C", "r", "e", "a", "t", "e">>
Str_Update == <<"U", "p", "d", "a", "t", "e">>
Str_RefPrefix == <<"#", "/", "c", "o", "m", "p", "o", "n", "e", "n", "t", "s", "/",
                   "s", "c", "h", "e", "m", "a", "s", "/">>

StartsWith(s, p) == Len(s) >= Len(p) /\ SubSeq(s, 1, Len(p)) = p

EndsWith(s, p) == Len(s) >= Len(p) /\ SubSeq(s, Len(s) - Len(p) + 1, Len(s)) = p

\* s.split('/')[-1]: what follows the last '/', the whole string when there is none
LastSegment(s) ==
    LET slashes == {i \in 1..Len(s) : s[i] = "/"}
        last == IF slashes = {} THEN 0
                ELSE CHOOSE i \in slashes : \A j \in slashes : j <= i
    IN SubSeq(s, last + 1, Len(s))

EmptyDict == <<>>

Has(d, k) == k \in DOMAIN d

Put(d, k, v) == [x \in (DOMAIN d) \cup {k} |-> IF x = k THEN v ELSE d[x]]

Pop(d, k) == [x \in (DOMAIN d) \ {k} |-> d[x]]

PopAll(d, ks) == [x \in (DOMAIN d) \ ks |-> d[x]]

\* d1.update(d2)
Update(d1, d2) == [x \in (DOMAIN d1) \cup (DOMAIN d2) |-> IF x \in DOMAIN d2 THEN d2[x] ELSE d1[x]]

Elems(seq) == {seq[i] : i \in 1..Len(seq)}

----------------------------------------------------------------------------
(* SchemaConverter._convert_openapi_schema_to_jsonschema *)

Dialect == "https://json-schema.org/draft/2020-12/schema"

\* a mutant of openapi_specific_fields: externalDocs is not in the list
FieldsWithoutExternalDocs == {"discriminator", "xml", "example"}

\* line 43
openapi_specific_fields == {"discriminator", "xml", "externalDocs", "example"}

ScalarType(t) == [list |-> FALSE, v |-> <<t>>]

ListType(l) == [list |-> TRUE, v |-> l]

\* NullableType without the membership test of line 53
NullableTypeAlwaysAppends(current_type) ==
    IF current_type.list
    THEN ListType(Append(current_type.v, "null"))
    ELSE ListType(<<current_type.v[1], "null">>)

\* lines 52-56: current_type with "null" folded in
NullableType(current_type) ==
    IF current_type.list
    THEN IF "null" \notin Elems(current_type.v)
         THEN ListType(Append(current_type.v, "null"))
         ELSE current_type
    ELSE ListType(<<current_type.v[1], "null">>)

\* FoldNullable with the pop of line 57 indented under "if nullable is true"
FoldNullablePopsWhenTrue(s) ==
    IF Has(s, "nullable") /\ s["nullable"]
    THEN Pop(IF Has(s, "type") THEN Put(s, "type", NullableType(s["type"])) ELSE s,
             "nullable")
    ELSE s

\* FoldNullable written naively: "null" is appended to whatever the type is
\* and the nullable key is left in place
FoldNullableNaive(s) ==
    IF Has(s, "nullable") /\ s["nullable"] /\ Has(s, "type")
    THEN Put(s, "type", ListType(Append(s["type"].v, "null")))
    ELSE s

\* lines 48-57 on the copy: the type is merged when nullable is true and a type
\* is present, and the nullable key is dropped whatever its value
FoldNullable(s) ==
    IF Has(s, "nullable")
    THEN Pop(IF s["nullable"] /\ Has(s, "type")
             THEN Put(s, "type", NullableType(s["type"]))
             ELSE s,
             "nullable")
    ELSE s

\* line 62
PropTitle(prop_name) == IF EndsWith(prop_name, Str_Id) THEN Str_id ELSE prop_name

RECURSIVE Convert(_, _)
Convert(schema, t) ==
    LET s1 == Put(schema, "$schema", Dialect)
        s2 == IF t # <<>> THEN Put(s1, "title", t) ELSE s1
        s3 == PopAll(s2, openapi_specific_fields)
        s4 == FoldNullable(s3)
        s5 == IF Has(s4, "properties")
              THEN Put(s4, "properties",
                       [p \in DOMAIN s4["properties"] |->
                            Convert(s4["properties"][p], PropTitle(p))])
              ELSE s4
        s6 == IF Has(s5, "items")
              THEN Put(s5, "items", Convert(s5["items"], Str_item))
              ELSE s5
        s7 == IF Has(s6, "additionalProperties") /\ s6["additionalProperties"].dict
              THEN Put(s6, "additionalProperties",
                       [dict |-> TRUE, b |-> FALSE,
                        s |-> Convert(s6["additionalProperties"].s, Str_additional)])
              ELSE s6
    IN s7

\* The argument object after Convert(schema, t) returned.  openapi_schema.copy()
\* copies the top level only: a "type" list and the "properties" dict are the
\* same objects in the copy, so the append of line 54 and the assignments of
\* line 63 land in the argument; "items" and "additionalProperties" are
\* re-bound in the copy, but the recursive calls reach into the original
\* nested dicts in the same way.
RECURSIVE ConvertedArg(_)
ConvertedArg(schema) ==
    LET a1 == IF /\ Has(schema, "nullable") /\ schema["nullable"]
                 /\ Has(schema, "type") /\ schema["type"].list
              THEN Put(schema, "type", NullableType(schema["type"]))
              ELSE schema
        a2 == IF Has(a1, "properties")
              THEN Put(a1, "properties",
                       [p \in DOMAIN a1["properties"] |->
                            Convert(a1["properties"][p], PropTitle(p))])
              ELSE a1
        a3 == IF Has(a2, "items")
              THEN Put(a2, "items", ConvertedArg(a2["items"]))
              ELSE a2
        a4 == IF Has(a3, "additionalProperties") /\ a3["additionalProperties"].dict
              THEN Put(a3, "additionalProperties",
                       [dict |-> TRUE, b |-> FALSE,
                        s |-> ConvertedArg(a3["additionalProperties"].s)])
              ELSE a3
    IN a4

----------------------------------------------------------------------------
(* Input schemas: what json.load can hand to the converter *)

Str_cityId == <<"c", "i", "t", "y", "I", "d">>
Str_name == <<"n", "a", "m", "e">>
Str_City == <<"C", "i", "t", "y">>

PropNames == {Str_cityId, Str_name}

TitleHints == {<<>>, Str_City}

TypeNames == {"string", "integer", "null"}

\* OpenAPI 3.0 has no scalar type "null": nullable is its way to say it
ScalarTypeNames == {"string", "integer"}

\* type lists are non-empty and without repetition, as the JSON Schema
\* meta-schema demands (minItems 1, uniqueItems)
TypeLists ==
    UNION {{l \in [1..n -> TypeNames] : \A i, j \in 1..n : l[i] = l[j] => i = j} :
           n \in 1..MaxTypeLen}

Types == {ScalarType(t) : t \in ScalarTypeNames} \cup {ListType(l) : l \in TypeLists}

WithOpt(ds, k, vs) == ds \cup {Put(d, k, v) : d \in ds, v \in vs}

\* schemas without children: every combination of type, nullable and two of
\* the OpenAPI-only fields
FlatSchemas ==
    WithOpt(WithOpt(WithOpt(WithOpt({EmptyDict}, "type", Types),
                            "nullable", BOOLEAN),
                    "example", {"Paris"}),
            "xml", {"city"})

\* the attribute sets given to the nodes of nested schemas; the value of an
\* OpenAPI-only field is never read and stands as a string
NodeBases ==
    { EmptyDict,
      [type |-> ScalarType("string"), nullable |-> TRUE],
      [type |-> ListType(<<"integer">>), nullable |-> TRUE, example |-> "Paris",
       xml |-> "city"],
      [type |-> ScalarType("integer"), nullable |-> FALSE, title |-> Str_name,
       discriminator |-> "kind",
       externalDocs |-> "https://example.org/city"] }

SchemaAP(c) == [dict |-> TRUE, b |-> FALSE, s |-> c]

BoolAP(v) == [dict |-> FALSE, b |-> v, s |-> EmptyDict]

RECURSIVE NestedSchemas(_)
NestedSchemas(d) ==
    IF d = 0 THEN NodeBases
    ELSE LET sub == NestedSchemas(d - 1)
         IN NodeBases
            \cup {Put(b, "properties", [p \in {n} |-> c]) :
                     b \in NodeBases, n \in PropNames, c \in sub}
            \cup {Put(b, "properties", [p \in PropNames |-> c]) :
                     b \in NodeBases, c \in NodeBases}
            \cup {Put(b, "items", c) : b \in NodeBases, c \in sub}
            \cup {Put(b, "additionalProperties", SchemaAP(c)) : b \in NodeBases, c \in sub}
            \cup {Put(b, "additionalProperties", BoolAP(v)) : b \in NodeBases, v \in BOOLEAN}

InputSchemas == FlatSchemas \cup NestedSchemas(MaxDepth)

Unused == <<>>

SchemaVarsUnused ==
    /\ openapi_schema = Unused /\ title = Unused /\ arg_after = Unused
    /\ json_schema = Unused /\ json_schema2 = Unused
    /\ operation = Unused /\ method = Unused /\ composite = Unused
    /\ composite_schemas = Unused /\ schemas = Unused /\ schemas_after = Unused
    /\ paths = Unused /\ expanded = Unused /\ converted_schemas = Unused

EntityVarsUnused ==
    /\ openapi_specs = Unused /\ service_schemas = Unused
    /\ all_operations = Unused
    /\ all_entities = Unused /\ entity_operations = Unused
    /\ entity_complex_ops = Unused

MapperVarsUnused ==
    /\ entity_name = Unused /\ analyzer_schemas = Unused
    /\ mapping_analysis = Unused /\ generator_specs = Unused
    /\ domain_fields = Unused /\ relation_mappings = Unused

LoadVarsUnused == openapi_files = Unused /\ run_error = Unused

WalkVarsUnused ==
    /\ call_stack = Unused /\ resolve_arg = Unused
    /\ resolve_dir = Unused /\ resolved = Unused

GenVarsUnused ==
    /\ openapi_dirs = Unused /\ dir_index = Unused /\ file_index = Unused
    /\ current_schemas = Unused /\ generated_schemas = Unused
    /\ total_schemas = Unused /\ generate_result = Unused

TestVarsUnused == test_entity = Unused /\ test_operations = Unused

DtoVarsUnused == dto_fields = Unused

RunVarsUnused ==
    /\ LoadVarsUnused /\ WalkVarsUnused /\ GenVarsUnused
    /\ TestVarsUnused /\ DtoVarsUnused

FakeVarsUnused ==
    /\ schemas_dir = Unused /\ fake_data_dir = Unused /\ jsf = Unused
    /\ total_files = Unused

----------------------------------------------------------------------------
(* Specification SpecConvert: one schema is converted, and the result is   *)
(* converted once more with the same title.                                *)

InitConvert ==
    /\ pc = "start"
    /\ openapi_schema \in InputSchemas
    /\ title \in TitleHints
    /\ arg_after = openapi_schema
    /\ json_schema = Unused
    /\ json_schema2 = Unused
    /\ operation = Unused /\ method = Unused /\ composite = Unused
    /\ composite_schemas = Unused /\ schemas = Unused /\ schemas_after = Unused
    /\ paths = Unused /\ expanded = Unused /\ converted_schemas = Unused
    /\ EntityVarsUnused /\ MapperVarsUnused /\ FakeVarsUnused /\ RunVarsUnused

CallConvert ==
    /\ pc = "start"
    /\ json_schema' = Convert(openapi_schema, title)
    /\ arg_after' = ConvertedArg(openapi_schema)
    /\ pc' = "converted"
    /\ UNCHANGED <<openapi_schema, title, json_schema2, operation, method, composite,
                   composite_schemas, schemas, schemas_after, paths, expanded,
                   converted_schemas,
                   entityVars, mapperVars, fakeVars, runVars>>

CallConvertAgain ==
    /\ pc = "converted"
    /\ json_schema2' = Convert(json_schema, title)
    /\ pc' = "reconverted"
    /\ UNCHANGED <<openapi_schema, title, arg_after, json_schema, operation, method,
                   composite, composite_schemas, schemas, schemas_after, paths,
                   expanded, converted_schemas,
                   entityVars, mapperVars, fakeVars, runVars>>

NextConvert == CallConvert \/ CallConvertAgain

SpecConvert == InitConvert /\ [][NextConvert]_vars

----------------------------------------------------------------------------
(* SchemaConverter._build_composite_schema and                             *)
(* SchemaConverter._generate_composite_request_schemas                     *)

\* d.get(k, default)
Get(d, k, default) == IF Has(d, k) THEN d[k] ELSE default

\* the value None
None == [None |-> TRUE]

\* str.upper() on the letters
UpperChar(c) ==
    CASE c = "a" -> "A" [] c = "b" -> "B" [] c = "c" -> "C" [] c = "d" -> "D"
      [] c = "e" -> "E" [] c = "f" -> "F" [] c = "g" -> "G" [] c = "h" -> "H"
      [] c = "i" -> "I" [] c = "j" -> "J" [] c = "k" -> "K" [] c = "l" -> "L"
      [] c = "m" -> "M" [] c = "n" -> "N" [] c = "o" -> "O" [] c = "p" -> "P"
      [] c = "q" -> "Q" [] c = "r" -> "R" [] c = "s" -> "S" [] c = "t" -> "T"
      [] c = "u" -> "U" [] c = "v" -> "V" [] c = "w" -> "W" [] c = "x" -> "X"
      [] c = "y" -> "Y" [] c = "z" -> "Z" [] OTHER -> c

Upper(s) == [i \in 1..Len(s) |-> UpperChar(s[i])]

Str_PUT == <<"P", "U", "T">>
Str_POST == <<"P", "O", "S", "T">>

\* line 114: the schema of a parameter that declares none
StringSchema == [type |-> ScalarType("string")]

\* IsRequiredPathParam with the "required" test left out
IsPathParam(param) == Get(param, "in", "") = "path"

\* line 112
IsRequiredPathParam(param) ==
    Get(param, "in", "") = "path" /\ Get(param, "required", FALSE)

\* lines 110-117: the parameters that contribute, in declaration order
RequiredPathParams(op) == SelectSeq(Get(op, "parameters", <<>>), IsRequiredPathParam)

\* line 116: required after the loop over the parameters
ParamRequired(pp) == [i \in 1..Len(pp) |-> pp[i]["name"]]

\* lines 113-115: properties after the loop; a later parameter of the same
\* name overwrites the earlier one
ParamProperties(pp) ==
    [n \in {pp[i]["name"] : i \in 1..Len(pp)} |->
        LET last == CHOOSE i \in 1..Len(pp) :
                       pp[i]["name"] = n /\ \A j \in 1..Len(pp) : pp[j]["name"] = n => j <= i
        IN Get(pp[last], "schema", StringSchema)]

\* lines 120-124: '' when there is no body, no JSON content or no $ref in it
BodySchemaRef(op) ==
    LET request_body == Get(op, "requestBody", EmptyDict)
    IN IF request_body # EmptyDict
       THEN Get(Get(Get(Get(request_body, "content", EmptyDict),
                        "application/json", EmptyDict),
                    "schema", EmptyDict),
                "$ref", <<>>)
       ELSE <<>>

RefSchema(ref, t) == ("$ref" :> ref) @@ ("title" :> t)

\* BuildComposite that wraps the body also when there is no path parameter
BuildCompositeAlwaysWraps(op, operation_id) ==
    LET pp == RequiredPathParams(op)
        body_schema_ref == BodySchemaRef(op)
        properties == IF body_schema_ref # <<>>
                      THEN Put(ParamProperties(pp), Str_body,
                               RefSchema(body_schema_ref, Str_body))
                      ELSE ParamProperties(pp)
        required == IF body_schema_ref # <<>>
                    THEN Append(ParamRequired(pp), Str_body)
                    ELSE ParamRequired(pp)
    IN IF properties = EmptyDict THEN None
       ELSE ("type" :> ScalarType("object")) @@ ("properties" :> properties)
            @@ ("required" :> required) @@ ("$schema" :> Dialect)
            @@ ("title" :> operation_id \o Str_Request)

\* lines 103-152
BuildComposite(op, operation_id) ==
    LET pp == RequiredPathParams(op)
        has_path_params == Len(pp) > 0
        body_schema_ref == BodySchemaRef(op)
        properties == IF body_schema_ref # <<>> /\ has_path_params
                      THEN Put(ParamProperties(pp), Str_body,
                               RefSchema(body_schema_ref, Str_body))
                      ELSE ParamProperties(pp)
        required == IF body_schema_ref # <<>> /\ has_path_params
                    THEN Append(ParamRequired(pp), Str_body)
                    ELSE ParamRequired(pp)
    IN IF body_schema_ref # <<>> /\ ~has_path_params
       THEN RefSchema(body_schema_ref, operation_id \o Str_Request)
       ELSE IF properties = EmptyDict THEN None
       ELSE ("type" :> ScalarType("object")) @@ ("properties" :> properties)
            @@ ("required" :> required) @@ ("$schema" :> Dialect)
            @@ ("title" :> operation_id \o Str_Request)

\* Applies without asking for a requestBody entry
AppliesWithoutBody(m, op) ==
    /\ Upper(m) \in {Str_PUT, Str_POST}
    /\ \E prefix \in {Str_Create, Str_Update} :
          StartsWith(Get(op, "operationId", <<>>), prefix)

\* lines 86-90: the operations a composite schema is built for
Applies(m, op) ==
    /\ Upper(m) \in {Str_PUT, Str_POST}
    /\ Has(op, "requestBody")
    /\ \E prefix \in {Str_Create, Str_Update} :
          StartsWith(Get(op, "operationId", <<>>), prefix)

\* lines 93-97: the composite schema with its x-metadata
Tagged(composite_schema, schema_name, metadata) ==
    Put(composite_schema, "x-metadata",
        Put(Put(metadata, "schema_name", schema_name), "composite", TRUE))

\* lines 79-101, over the entries <<method, operation>> of the paths table in
\* iteration order; a later entry of the same name replaces the earlier one
RECURSIVE GenerateComposites(_, _)
GenerateComposites(entries, metadata) ==
    IF entries = <<>> THEN EmptyDict
    ELSE LET n == Len(entries)
             before == GenerateComposites(SubSeq(entries, 1, n - 1), metadata)
             m == entries[n][1]
             op == entries[n][2]
             operation_id == Get(op, "operationId", <<>>)
             composite_schema == BuildComposite(op, operation_id)
         IN IF Applies(m, op) /\ composite_schema # None
            THEN Put(before, operation_id \o Str_Request,
                     Tagged(composite_schema, operation_id \o Str_Request, metadata))
            ELSE before

\* lines 24-33; the time and the user are values of the environment
CreateMetadata(source_file) ==
    [generatedBy |-> "OpenAPI to JSON Schema Generator v1.0",
     generatedFrom |-> source_file,
     generatedAt |-> "now",
     generatedBy_user |-> "user",
     generator_version |-> "1.0.0",
     source_type |-> "openapi_specification"]

----------------------------------------------------------------------------
(* Operations of the input documents *)

Str_countryId == <<"c", "o", "u", "n", "t", "r", "y", "I", "d">>
Str_regionId == <<"r", "e", "g", "i", "o", "n", "I", "d">>
Str_limit == <<"l", "i", "m", "i", "t">>
Str_CreateCity == <<"C", "r", "e", "a", "t", "e", "C", "i", "t", "y">>
Str_UpdateCity == <<"U", "p", "d", "a", "t", "e", "C", "i", "t", "y">>
Str_GetCity == <<"G", "e", "t", "C", "i", "t", "y">>
Str_RecreateCity == <<"R", "e", "c", "r", "e", "a", "t", "e", "C", "i", "t", "y">>
Str_Content == <<"C", "r", "e", "a", "t", "e", "C", "i", "t", "y", "R", "e", "q", "u", "e", "s", "t", "C", "o", "n", "t", "e", "n", "t">>
Str_Missing == <<"M", "i", "s", "s", "i", "n", "g">>
Str_Country == <<"C", "o", "u", "n", "t", "r", "y">>

Ref(schema_name) == Str_RefPrefix \o schema_name

\* parameters: required path parameters with and without a schema, one named
\* like the body property, one repeating a name, an optional path parameter
\* and a query parameter
Params ==
    { [in |-> "path", required |-> TRUE, name |-> Str_cityId,
       schema |-> [type |-> ScalarType("integer")]],
      [in |-> "path", required |-> TRUE, name |-> Str_countryId],
      [in |-> "path", required |-> TRUE, name |-> Str_body],
      [in |-> "path", required |-> TRUE, name |-> Str_cityId,
       schema |-> [type |-> ScalarType("string")]],
      [in |-> "path", required |-> FALSE, name |-> Str_regionId],
      [in |-> "query", required |-> TRUE, name |-> Str_limit] }

ParamLists == UNION {[1..n -> Params] : n \in 0..MaxParams}

JsonBody(schema) == [content |-> ("application/json" :> [schema |-> schema])]

\* request bodies: an empty one, one without JSON content, JSON content with an
\* inline schema, and JSON content referring to a present or absent component
RequestBodies ==
    { EmptyDict,
      [content |-> ("text/plain" :> [schema |-> [type |-> ScalarType("string")]])],
      JsonBody([type |-> ScalarType("object")]),
      JsonBody("$ref" :> Ref(Str_Content)),
      JsonBody("$ref" :> Ref(Str_Missing)) }

OperationIds == {Str_CreateCity, Str_UpdateCity, Str_GetCity, Str_RecreateCity}

Methods == {<<"p", "o", "s", "t">>, <<"P", "U", "T">>, <<"g", "e", "t">>, <<"p", "a", "t", "c", "h">>}

OperationsOver(ids, lists, bodies) ==
    WithOpt(WithOpt(WithOpt({EmptyDict}, "operationId", ids),
                    "parameters", lists),
            "requestBody", bodies)

Operations == OperationsOver(OperationIds, ParamLists, RequestBodies)

----------------------------------------------------------------------------
(* Specification SpecComposite: one operation is handed to                  *)
(* _build_composite_schema, and a paths table holding it under one method  *)
(* to _generate_composite_request_schemas.                                 *)

InitComposite ==
    /\ pc = "start"
    /\ operation \in Operations
    /\ method \in Methods
    /\ composite = Unused
    /\ composite_schemas = Unused
    /\ openapi_schema = Unused /\ title = Unused /\ arg_after = Unused
    /\ json_schema = Unused /\ json_schema2 = Unused
    /\ schemas = Unused /\ schemas_after = Unused
    /\ paths = Unused /\ expanded = Unused /\ converted_schemas = Unused
    /\ EntityVarsUnused /\ MapperVarsUnused /\ FakeVarsUnused /\ RunVarsUnused

CallBuildComposite ==
    /\ pc = "start"
    /\ composite' = BuildComposite(operation, Get(operation, "operationId", <<>>))
    /\ pc' = "built"
    /\ UNCHANGED <<openapi_schema, title, arg_after, json_schema, json_schema2,
                   operation, method, composite_schemas, schemas, schemas_after,
                   paths, expanded, converted_schemas,
                   entityVars, mapperVars, fakeVars, runVars>>

CallGenerateComposites ==
    /\ pc = "built"
    /\ composite_schemas' =
          GenerateComposites(<< <<method, operation>> >>, CreateMetadata("openapi.json"))
    /\ pc' = "generated"
    /\ UNCHANGED <<openapi_schema, title, arg_after, json_schema, json_schema2,
                   operation, method, composite, schemas, schemas_after,
                   paths, expanded, converted_schemas,
                   entityVars, mapperVars, fakeVars, runVars>>

NextComposite == CallBuildComposite \/ CallGenerateComposites

SpecComposite == InitComposite /\ [][NextComposite]_vars

----------------------------------------------------------------------------
(* SchemaConverter._expand_refs_in_schema, _expand_refs_in_schemas and     *)
(* extract_schemas_from_openapi                                            *)

Str_DefinitionsPrefix == <<"#", "/", "d", "e", "f", "i", "n", "i", "t", "i", "o", "n", "s", "/">>

IsInternalRef(ref_path) == StartsWith(ref_path, Str_RefPrefix)

RECURSIVE Expand(_, _)

\* Expand that replaces a $ref at the top of its argument only
ExpandTopOnly(schema, all_schemas) ==
    IF /\ Has(schema, "$ref") /\ IsInternalRef(schema["$ref"])
       /\ Has(all_schemas, LastSegment(schema["$ref"]))
    THEN Convert(all_schemas[LastSegment(schema["$ref"])],
                 Get(schema, "title", LastSegment(schema["$ref"])))
    ELSE schema

\* Expand testing for the prefix '#/definitions/' at line 169
ExpandWrongPrefix(schema, all_schemas) ==
    IF Has(schema, "$ref")
    THEN IF /\ StartsWith(schema["$ref"], Str_DefinitionsPrefix)
            /\ Has(all_schemas, LastSegment(schema["$ref"]))
         THEN Convert(all_schemas[LastSegment(schema["$ref"])],
                      Get(schema, "title", LastSegment(schema["$ref"])))
         ELSE schema
    ELSE [k \in DOMAIN schema |->
            CASE k = "properties" ->
                   [p \in DOMAIN schema[k] |-> Expand(schema[k][p], all_schemas)]
              [] k = "items" -> Expand(schema[k], all_schemas)
              [] k = "additionalProperties" ->
                   IF schema[k].dict
                   THEN [dict |-> TRUE, b |-> FALSE, s |-> Expand(schema[k].s, all_schemas)]
                   ELSE schema[k]
              [] OTHER -> schema[k]]

\* Expand that gives an empty schema for a $ref whose target is absent
ExpandDropsAbsent(schema, all_schemas) ==
    IF Has(schema, "$ref")
    THEN IF /\ IsInternalRef(schema["$ref"])
            /\ Has(all_schemas, LastSegment(schema["$ref"]))
         THEN Convert(all_schemas[LastSegment(schema["$ref"])],
                      Get(schema, "title", LastSegment(schema["$ref"])))
         ELSE EmptyDict
    ELSE [k \in DOMAIN schema |->
            CASE k = "properties" ->
                   [p \in DOMAIN schema[k] |-> Expand(schema[k][p], all_schemas)]
              [] k = "items" -> Expand(schema[k], all_schemas)
              [] k = "additionalProperties" ->
                   IF schema[k].dict
                   THEN [dict |-> TRUE, b |-> FALSE, s |-> Expand(schema[k].s, all_schemas)]
                   ELSE schema[k]
              [] OTHER -> schema[k]]

\* lines 164-191.  A dict with a $ref is replaced by the converted copy of its
\* target (which is not expanded further) or returned as it is; any other
\* dict is rebuilt from its expanded values.  Of the values, the schemas under
\* properties, items and additionalProperties can hold a $ref; strings,
\* booleans, lists of strings and the x-metadata dict come back equal.
Expand(schema, all_schemas) ==
    IF Has(schema, "$ref")
    THEN IF /\ IsInternalRef(schema["$ref"])
            /\ Has(all_schemas, LastSegment(schema["$ref"]))
         THEN Convert(all_schemas[LastSegment(schema["$ref"])],
                      Get(schema, "title", LastSegment(schema["$ref"])))
         ELSE schema
    ELSE [k \in DOMAIN schema |->
            CASE k = "properties" ->
                   [p \in DOMAIN schema[k] |-> Expand(schema[k][p], all_schemas)]
              [] k = "items" -> Expand(schema[k], all_schemas)
              [] k = "additionalProperties" ->
                   IF schema[k].dict
                   THEN [dict |-> TRUE, b |-> FALSE, s |-> Expand(schema[k].s, all_schemas)]
                   ELSE schema[k]
              [] OTHER -> schema[k]]

\* the names of the components Expand(schema, all_schemas) copies and converts
RECURSIVE Resolved(_, _)
Resolved(schema, all_schemas) ==
    IF Has(schema, "$ref")
    THEN IF /\ IsInternalRef(schema["$ref"])
            /\ Has(all_schemas, LastSegment(schema["$ref"]))
         THEN {LastSegment(schema["$ref"])}
         ELSE {}
    ELSE UNION ({Resolved(schema["properties"][p], all_schemas) :
                    p \in IF Has(schema, "properties") THEN DOMAIN schema["properties"] ELSE {}}
                \cup (IF Has(schema, "items")
                      THEN {Resolved(schema["items"], all_schemas)} ELSE {})
                \cup (IF Has(schema, "additionalProperties") /\ schema["additionalProperties"].dict
                      THEN {Resolved(schema["additionalProperties"].s, all_schemas)} ELSE {}))

\* all_schemas after Expand(schema, all_schemas) returned: line 173 copies the
\* target's top level only, and line 175 converts that copy
ExpandedAllSchemas(schema, all_schemas) ==
    [n \in DOMAIN all_schemas |->
        IF n \in Resolved(schema, all_schemas)
        THEN ConvertedArg(all_schemas[n]) ELSE all_schemas[n]]

\* lines 154-162
ExpandAll(composites, all_schemas) ==
    [n \in DOMAIN composites |-> Expand(composites[n], all_schemas)]

\* lines 211-218: the converted component schemas with their x-metadata
ConvertComponents(comps, metadata, openapi_file) ==
    [n \in DOMAIN comps |->
        Put(Convert(comps[n], n), "x-metadata",
            Put(Put(metadata, "schema_name", n), "original_file", openapi_file))]

\* the component schemas after the loop of lines 211-218 converted each of them
ComponentsAfterConvert(comps) == [n \in DOMAIN comps |-> ConvertedArg(comps[n])]

\* lines 202-228, for a document that was loaded: its component schemas and the
\* entries of its paths table
ExtractSchemas(comps, entries, openapi_file) ==
    IF comps = EmptyDict THEN EmptyDict
    ELSE Update(ConvertComponents(comps, CreateMetadata(openapi_file), openapi_file),
                ExpandAll(GenerateComposites(entries, CreateMetadata(openapi_file)),
                          ComponentsAfterConvert(comps)))

----------------------------------------------------------------------------
(* Component schemas and documents *)

Str_country == <<"c", "o", "u", "n", "t", "r", "y">>

ObjectOf(props) == [type |-> ScalarType("object"), properties |-> props]

ContentPlain ==
    Put(ObjectOf([p \in PropNames |->
                    IF p = Str_name
                    THEN [type |-> ScalarType("string"), nullable |-> TRUE]
                    ELSE [type |-> ListType(<<"integer">>), nullable |-> TRUE]]),
        "required", <<Str_name>>)

CountryPlain == [type |-> ScalarType("object"), example |-> "France"]

\* component sets: self-contained schemas; a body schema with a property that
\* refers to another component; a body schema that is itself a reference; a
\* set without the body schema
ComponentSets ==
    { [n \in {Str_Content, Str_Country} |->
          IF n = Str_Content THEN ContentPlain ELSE CountryPlain],
      [n \in {Str_Content, Str_Country} |->
          IF n = Str_Content
          THEN ObjectOf([p \in {Str_country} |-> ("$ref" :> Ref(Str_Country))])
          ELSE CountryPlain],
      [n \in {Str_Content, Str_Country} |->
          IF n = Str_Content THEN ("$ref" :> Ref(Str_Country)) ELSE CountryPlain],
      [n \in {Str_Country} |-> CountryPlain] }

RefPaths == {Ref(Str_Content), Ref(Str_Country), Ref(Str_Missing),
             Str_DefinitionsPrefix \o Str_Content}

RefSchemas == WithOpt({("$ref" :> r) : r \in RefPaths}, "title", {Str_body})

\* the schemas handed to _expand_refs_in_schema: references, and schemas
\* holding a reference under properties, items or additionalProperties
ExpandInputs ==
    RefSchemas
    \cup {ObjectOf([p \in {Str_body} |-> r]) : r \in RefSchemas}
    \cup {[type |-> ScalarType("array"), items |-> r] : r \in RefSchemas}
    \cup {[type |-> ScalarType("object"), additionalProperties |-> SchemaAP(r)] :
            r \in RefSchemas}
    \cup {ContentPlain}

DocParamLists ==
    { <<>>,
      <<[in |-> "path", required |-> TRUE, name |-> Str_cityId,
         schema |-> [type |-> ScalarType("integer")]]>>,
      <<[in |-> "path", required |-> FALSE, name |-> Str_regionId]>>,
      <<[in |-> "path", required |-> TRUE, name |-> Str_countryId,
         schema |-> ("$ref" :> Ref(Str_Country))],
        [in |-> "query", required |-> TRUE, name |-> Str_limit]>> }

DocOperations ==
    OperationsOver({Str_CreateCity, Str_UpdateCity, Str_GetCity}, DocParamLists, RequestBodies)

DocMethods == {<<"p", "o", "s", "t">>, <<"P", "U", "T">>, <<"g", "e", "t">>}

\* entries that follow the first one in the paths table
LaterEntries ==
    { <<<<"p", "u", "t">>,
        [operationId |-> Str_UpdateCity,
         parameters |-> <<[in |-> "path", required |-> TRUE, name |-> Str_cityId]>>,
         requestBody |-> JsonBody("$ref" :> Ref(Str_Content))]>>,
      <<<<"p", "o", "s", "t">>,
        [operationId |-> Str_CreateCity,
         requestBody |-> JsonBody("$ref" :> Ref(Str_Content))]>> }

PathTables ==
    {<< <<m, op>> >> : m \in DocMethods, op \in DocOperations}
    \cup {<< <<m, op>>, e >> : m \in DocMethods, op \in DocOperations, e \in LaterEntries}

OpenApiFile == "openapi.json"

----------------------------------------------------------------------------
(* Specification SpecExpand: a schema is expanded against a component set, *)
(* and the result is converted.                                            *)

InitExpand ==
    /\ pc = "start"
    /\ openapi_schema \in ExpandInputs
    /\ schemas \in ComponentSets
    /\ title \in TitleHints
    /\ schemas_after = schemas
    /\ expanded = Unused
    /\ json_schema = Unused
    /\ arg_after = Unused /\ json_schema2 = Unused
    /\ operation = Unused /\ method = Unused /\ composite = Unused
    /\ composite_schemas = Unused /\ paths = Unused /\ converted_schemas = Unused
    /\ EntityVarsUnused /\ MapperVarsUnused /\ FakeVarsUnused /\ RunVarsUnused

CallExpand ==
    /\ pc = "start"
    /\ expanded' = Expand(openapi_schema, schemas)
    /\ schemas_after' = ExpandedAllSchemas(openapi_schema, schemas)
    /\ pc' = "expanded"
    /\ UNCHANGED <<openapi_schema, title, arg_after, json_schema, json_schema2,
                   operation, method, composite, composite_schemas, schemas, paths,
                   converted_schemas,
                   entityVars, mapperVars, fakeVars, runVars>>

CallConvertExpanded ==
    /\ pc = "expanded"
    /\ json_schema' = Convert(expanded, title)
    /\ pc' = "normalized"
    /\ UNCHANGED <<openapi_schema, title, arg_after, json_schema2, operation, method,
                   composite, composite_schemas, schemas, schemas_after, paths,
                   expanded, converted_schemas,
                   entityVars, mapperVars, fakeVars, runVars>>

NextExpand == CallExpand \/ CallConvertExpanded

SpecExpand == InitExpand /\ [][NextExpand]_vars

----------------------------------------------------------------------------
(* Specification Spec: extract_schemas_from_openapi on one loaded document *)

Init ==
    /\ pc = "start"
    /\ schemas \in ComponentSets
    /\ paths \in PathTables
    /\ schemas_after = schemas
    /\ composite_schemas = Unused
    /\ converted_schemas = Unused
    /\ openapi_schema = Unused /\ title = Unused /\ arg_after = Unused
    /\ json_schema = Unused /\ json_schema2 = Unused
    /\ operation = Unused /\ method = Unused /\ composite = Unused
    /\ expanded = Unused
    /\ EntityVarsUnused /\ MapperVarsUnused /\ FakeVarsUnused /\ RunVarsUnused

\* composite_schemas records the value of line 221 on the way
CallExtract ==
    /\ pc = "start"
    /\ composite_schemas' = GenerateComposites(paths, CreateMetadata(OpenApiFile))
    /\ converted_schemas' = ExtractSchemas(schemas, paths, OpenApiFile)
    /\ schemas_after' = ComponentsAfterConvert(schemas)
    /\ pc' = "extracted"
    /\ UNCHANGED <<openapi_schema, title, arg_after, json_schema, json_schema2,
                   operation, method, composite, schemas, paths, expanded,
                   entityVars, mapperVars, fakeVars, runVars>>

Next == CallExtract

Spec == Init /\ [][Next]_vars

----------------------------------------------------------------------------
(* OpenApiProcessor: entity discovery and operation classification         *)
(* libs/pyjava-backend-codegen/core/openapi_processor.py                   *)

Str_Response == <<"R", "e", "s", "p", "o", "n", "s", "e">>
Str_ContentSuffix == <<"C", "o", "n", "t", "e", "n", "t">>
Str_ResponseContent == Str_Response \o Str_ContentSuffix
Str_Get == <<"G", "e", "t">>
Str_Delete == <<"D", "e", "l", "e", "t", "e">>
Str_List == <<"L", "i", "s", "t">>
Str_s == <<"s">>
Str_By == <<"B", "y">>
Str_Location == <<"L", "o", "c", "a", "t", "i", "o", "n">>
Str_Cities == <<"C", "i", "t", "i", "e", "s">>
Str_Countries == <<"C", "o", "u", "n", "t", "r", "i", "e", "s">>
Str_Regions == <<"R", "e", "g", "i", "o", "n", "s">>
Str_Neighborhoods == <<"N", "e", "i", "g", "h", "b", "o", "r", "h", "o", "o", "d", "s">>

UpperLetters == <<"A", "B", "C", "D", "E", "F", "G", "H", "I", "J", "K", "L", "M",
                  "N", "O", "P", "Q", "R", "S", "T", "U", "V", "W", "X", "Y", "Z">>

LowerLetters == <<"a", "b", "c", "d", "e", "f", "g", "h", "i", "j", "k", "l", "m",
                  "n", "o", "p", "q", "r", "s", "t", "u", "v", "w", "x", "y", "z">>

\* str.lower() on one character
LowerChar(c) ==
    IF \E i \in DOMAIN UpperLetters : UpperLetters[i] = c
    THEN LowerLetters[CHOOSE i \in DOMAIN UpperLetters : UpperLetters[i] = c]
    ELSE c

Lower(s) == [i \in 1..Len(s) |-> LowerChar(s[i])]

\* sub in s
Contains(s, sub) ==
    \E i \in 0..(Len(s) - Len(sub)) : SubSeq(s, i + 1, i + Len(sub)) = sub

\* s.replace(old, ''): every occurrence of old, scanning left to right, is removed
RECURSIVE RemoveAll(_, _)
RemoveAll(s, old) ==
    IF Len(s) < Len(old) THEN s
    ELSE IF StartsWith(s, old)
         THEN RemoveAll(SubSeq(s, Len(old) + 1, Len(s)), old)
         ELSE <<Head(s)>> \o RemoveAll(Tail(s), old)

\* concatenation of a sequence of sequences
RECURSIVE Flatten(_)
Flatten(ss) == IF ss = <<>> THEN <<>> ELSE Head(ss) \o Flatten(Tail(ss))

\* the name tested at line 104
IsResponseName(schema_name) ==
    EndsWith(schema_name, Str_Response) \/ EndsWith(schema_name, Str_ResponseContent)

\* lines 106-108: the two chained replace calls, then the leading Get
EntityName(schema_name) ==
    LET replaced == RemoveAll(RemoveAll(schema_name, Str_Response), Str_ResponseContent)
    IN IF StartsWith(replaced, Str_Get) THEN SubSeq(replaced, 4, Len(replaced))
       ELSE replaced

\* the set all_entities once every document has been scanned
DiscoveredEntities(specs) ==
    LET names == UNION {DOMAIN specs[i].schemas : i \in DOMAIN specs}
    IN {EntityName(n) : n \in {m \in names : IsResponseName(m)}} \ {<<>>}

\* lines 93-100: the operations of one document, paths top to bottom and the
\* methods of a path in declaration order; an entry is <<method, operation_data>>
OperationsOfSpec(spec_data) ==
    LET entries == Flatten(spec_data.paths)
        withId == SelectSeq(entries, LAMBDA e : Has(e[2], "operationId"))
    IN [i \in 1..Len(withId) |->
            [id |-> withId[i][2]["operationId"], service |-> spec_data.service_name]]

\* lines 84-91: the key f"{service_name}_{schema_name}"
SchemaKey(service_name, schema_name) == service_name \o <<"_">> \o schema_name

\* all_schemas: a later document overwrites the key of an earlier one
ServiceSchemas(specs) ==
    LET keysOf(i) == {SchemaKey(specs[i].service_name, n) : n \in DOMAIN specs[i].schemas}
        keys == UNION {keysOf(i) : i \in DOMAIN specs}
        last(k) == CHOOSE i \in DOMAIN specs :
                       /\ k \in keysOf(i)
                       /\ \A j \in DOMAIN specs : k \in keysOf(j) => j <= i
        nameOf(k, i) == CHOOSE n \in DOMAIN specs[i].schemas :
                            SchemaKey(specs[i].service_name, n) = k
    IN [k \in keys |->
            [data |-> specs[last(k)].schemas[nameOf(k, last(k))],
             service |-> specs[last(k)].service_name,
             original_name |-> nameOf(k, last(k))]]

\* all_operations: the documents in the order they were loaded
AllOperations(specs) == Flatten([i \in DOMAIN specs |-> OperationsOfSpec(specs[i])])

\* list(all_entities): a set is listed in an order the code does not choose
Orderings(S) ==
    {f \in [1..Cardinality(S) -> S] : \A i, j \in 1..Cardinality(S) : f[i] = f[j] => i = j}

\* a mutant of IsCrudOf: the operationId only has to start like a CRUD name
IsCrudOfByPrefix(op_id, entity) ==
    \/ StartsWith(op_id, Str_Create \o entity)
    \/ StartsWith(op_id, Str_Get \o entity)
    \/ StartsWith(op_id, Str_Update \o entity)
    \/ StartsWith(op_id, Str_Delete \o entity)
    \/ StartsWith(op_id, Str_List \o entity)

\* lines 131-135: the five exact names
IsCrudOf(op_id, entity) ==
    \/ op_id = Str_Create \o entity
    \/ op_id = Str_Get \o entity
    \/ op_id = Str_Update \o entity
    \/ op_id = Str_Delete \o entity
    \/ op_id = Str_List \o entity \o Str_s

\* lines 129-137: the first entity of the list that matches, <<>> (None) otherwise
EntityOfOperation(op_id, entities) ==
    LET hits == {i \in DOMAIN entities : IsCrudOf(op_id, entities[i])}
    IN IF hits = {} THEN <<>>
       ELSE entities[CHOOSE i \in hits : \A j \in hits : i <= j]

\* a mutant of GroupOperationsByEntity: an operationId already in a list is skipped
GroupFirstOccurrenceOnly(operations, entities) ==
    LET keys == {EntityOfOperation(operations[i].id, entities) :
                     i \in DOMAIN operations} \ {<<>>}
        firsts == {i \in DOMAIN operations :
                      \A j \in 1..(i - 1) : operations[j].id # operations[i].id}
        kept(e) == {i \in firsts : EntityOfOperation(operations[i].id, entities) = e}
        nth(S, n) == CHOOSE i \in S : Cardinality({j \in S : j < i}) = n - 1
    IN [e \in keys |-> [n \in 1..Cardinality(kept(e)) |-> operations[nth(kept(e), n)]]]

\* group_operations_by_entity, lines 125-143
GroupOperationsByEntity(operations, entities) ==
    LET keys == {EntityOfOperation(operations[i].id, entities) :
                     i \in DOMAIN operations} \ {<<>>}
    IN [e \in keys |->
            SelectSeq(operations, LAMBDA o : EntityOfOperation(o.id, entities) = e)]

LocationKeywords == {Str_Cities, Str_Countries, Str_Regions, Str_Neighborhoods}

\* a mutant of IsComplexOf: the operationId need not start with Get
IsComplexOfWithoutGet(op_id, entity, entity_ops) ==
    /\ \A i \in DOMAIN entity_ops : entity_ops[i].id # op_id
    /\ Contains(op_id, Str_By)
    /\ \/ Contains(Lower(op_id), Lower(entity))
       \/ /\ \E related \in LocationKeywords : Contains(op_id, related)
          /\ entity = Str_Location

\* a mutant of IsComplexOf: the keyword rule is not restricted to Location
IsComplexOfKeywordForAll(op_id, entity, entity_ops) ==
    /\ \A i \in DOMAIN entity_ops : entity_ops[i].id # op_id
    /\ StartsWith(op_id, Str_Get)
    /\ Contains(op_id, Str_By)
    /\ \/ Contains(Lower(op_id), Lower(entity))
       \/ \E related \in LocationKeywords : Contains(op_id, related)

\* lines 160-168: the test made for one operation and one entity; entity_ops
\* is that entity's own list
IsComplexOf(op_id, entity, entity_ops) ==
    /\ \A i \in DOMAIN entity_ops : entity_ops[i].id # op_id
    /\ StartsWith(op_id, Str_Get)
    /\ Contains(op_id, Str_By)
    /\ \/ Contains(Lower(op_id), Lower(entity))
       \/ /\ \E related \in LocationKeywords : Contains(op_id, related)
          /\ entity = Str_Location

\* the operationIds of a list of operations
Ids(operations) == [i \in DOMAIN operations |-> operations[i].id]

Reverse(s) == [i \in 1..Len(s) |-> s[Len(s) + 1 - i]]

\* a mutant of FindComplexOperations: each operationId is put at the front
FindComplexOperationsPrepending(operations, entity_ops_by_name) ==
    [e \in DOMAIN entity_ops_by_name |->
        Reverse(Ids(SelectSeq(operations,
                    LAMBDA o : IsComplexOf(o.id, e, entity_ops_by_name[e]))))]

\* a mutant of FindComplexOperations: Location gets an entry whenever an
\* operation falls under the keyword rule, with or without CRUD operations
FindComplexOperationsForLocation(operations, entity_ops_by_name) ==
    LET keyword == SelectSeq(operations,
                             LAMBDA o : IsComplexOf(o.id, Str_Location, <<>>))
    IN [e \in DOMAIN entity_ops_by_name
               \cup (IF keyword # <<>> THEN {Str_Location} ELSE {}) |->
           Ids(SelectSeq(operations,
                   LAMBDA o : IsComplexOf(o.id, e,
                                  IF e \in DOMAIN entity_ops_by_name
                                  THEN entity_ops_by_name[e] ELSE <<>>)))]

\* find_complex_operations, lines 156-170
FindComplexOperations(operations, entity_ops_by_name) ==
    [e \in DOMAIN entity_ops_by_name |->
        Ids(SelectSeq(operations,
                LAMBDA o : IsComplexOf(o.id, e, entity_ops_by_name[e])))]

----------------------------------------------------------------------------
(* The documents the processor is run on *)

MaxOps == 2        \* number of path items of a generated path table

Str_Region == <<"R", "e", "g", "i", "o", "n">>
Str_Name == <<"N", "a", "m", "e">>
Str_Find == <<"F", "i", "n", "d">>
Str_geo == <<"g", "e", "o">>
Str_users == <<"u", "s", "e", "r", "s">>
Str_DeleteCity == Str_Delete \o Str_City
Str_ListCitys == Str_List \o Str_City \o Str_s
Str_GetCitiesByRegion == Str_Get \o Str_Cities \o Str_By \o Str_Region
Str_GetCityByRegion == Str_Get \o Str_City \o Str_By \o Str_Region
Str_GetCityByName == Str_Get \o Str_City \o Str_By \o Str_Name
Str_FindCityByName == Str_Find \o Str_City \o Str_By \o Str_Name
Str_GetLocation == Str_Get \o Str_Location
Str_CityResponse == Str_City \o Str_Response
Str_GetCityResponse == Str_Get \o Str_City \o Str_Response
Str_GetCityResponseContent == Str_Get \o Str_City \o Str_ResponseContent
Str_LocationResponse == Str_Location \o Str_Response
Str_CityByRegionResponse == Str_City \o Str_By \o Str_Region \o Str_Response
Str_GetResponse == Str_Get \o Str_Response

\* an operation object that carries an operationId
OperationWithId(id) == [operationId |-> id]

\* path items with one entry each, for the generated path tables; the last
\* entry is an operation without operationId
ScanEntries ==
    {<<"get", OperationWithId(Str_GetCity)>>,
     <<"post", OperationWithId(Str_CreateCity)>>,
     <<"get", OperationWithId(Str_GetCityByRegion)>>,
     <<"get", OperationWithId(Str_GetCityByName)>>,
     <<"get", OperationWithId(Str_GetCitiesByRegion)>>,
     <<"get", OperationWithId(Str_GetLocation)>>,
     <<"get", OperationWithId(Str_FindCityByName)>>,
     <<"get", EmptyDict>>}

GeneratedPaths == UNION {[1..n -> {<<e>> : e \in ScanEntries}] : n \in 0..MaxOps}

\* the CRUD operations of City followed by a finder over the plural name
CityCrudPaths ==
    << <<(<<"post", OperationWithId(Str_CreateCity)>>)>>,
       << <<"get", OperationWithId(Str_GetCity)>>,
          <<"put", OperationWithId(Str_UpdateCity)>>,
          <<"delete", OperationWithId(Str_DeleteCity)>> >>,
       <<(<<"get", OperationWithId(Str_ListCitys)>>)>>,
       <<(<<"get", OperationWithId(Str_GetCitiesByRegion)>>)>> >>

CityAndLocationPaths == CityCrudPaths \o << <<(<<"get", OperationWithId(Str_GetLocation)>>)>> >>

\* several finders of one entity, separated by other operations
CityFinderPaths ==
    << <<(<<"get", OperationWithId(Str_GetCityByRegion)>>)>>,
       << <<"get", OperationWithId(Str_GetCity)>>,
          <<"post", OperationWithId(Str_GetCityByName)>> >>,
       <<(<<"get", OperationWithId(Str_GetCitiesByRegion)>>)>> >>

DocPaths == GeneratedPaths \cup {CityCrudPaths, CityAndLocationPaths, CityFinderPaths}

\* components.schemas of a document; only the names matter to the processor
SchemasNamed(names) == [n \in names |-> EmptyDict]

SchemaNameSets ==
    {{Str_CityResponse},
     {Str_GetCityResponse},
     {Str_GetCityResponseContent},
     {Str_City, Str_Content},
     {Str_CityResponse, Str_GetCityResponseContent},
     {Str_CityResponse, Str_LocationResponse},
     {Str_CityResponse, Str_CityByRegionResponse},
     {Str_CityResponse, Str_LocationResponse, Str_CityByRegionResponse},
     {Str_Response, Str_GetResponse}}

FirstDocuments ==
    {[service_name |-> Str_geo, schemas |-> SchemasNamed(names), paths |-> p] :
        names \in SchemaNameSets, p \in DocPaths}

\* what a second document adds: the same operationIds again, another entity
SecondDocuments ==
    {[service_name |-> Str_users,
      schemas |-> SchemasNamed({Str_LocationResponse}),
      paths |-> << <<(<<"get", OperationWithId(Str_GetLocation)>>)>>,
                   <<(<<"get", OperationWithId(Str_GetCity)>>)>>,
                   <<(<<"get", OperationWithId(Str_GetCityByName)>>)>> >>],
     [service_name |-> Str_users,
      schemas |-> SchemasNamed({Str_CityResponse}),
      paths |-> << <<(<<"post", OperationWithId(Str_CreateCity)>>)>>,
                   <<(<<"get", OperationWithId(Str_GetCityByName)>>)>> >>]}

SpecLists == {<<d>> : d \in FirstDocuments}
             \cup {<<d, e>> : d \in FirstDocuments, e \in SecondDocuments}

----------------------------------------------------------------------------
(* SpecEntities: extract_schemas_and_operations, group_operations_by_entity *)
(* and find_complex_operations, called in that order                       *)

InitEntities ==
    /\ pc = "start"
    /\ openapi_specs \in SpecLists
    /\ service_schemas = Unused
    /\ all_operations = Unused
    /\ all_entities = Unused
    /\ entity_operations = Unused
    /\ entity_complex_ops = Unused
    /\ SchemaVarsUnused /\ MapperVarsUnused /\ FakeVarsUnused /\ RunVarsUnused

CallExtractSchemasAndOperations ==
    /\ pc = "start"
    /\ pc' = "scanned"
    /\ service_schemas' = ServiceSchemas(openapi_specs)
    /\ all_operations' = AllOperations(openapi_specs)
    /\ \E order \in Orderings(DiscoveredEntities(openapi_specs)) : all_entities' = order
    /\ UNCHANGED <<openapi_specs, entity_operations, entity_complex_ops,
                   schemaVars, mapperVars, fakeVars, runVars>>

CallGroupOperationsByEntity ==
    /\ pc = "scanned"
    /\ pc' = "grouped"
    /\ entity_operations' = GroupOperationsByEntity(all_operations, all_entities)
    /\ UNCHANGED <<openapi_specs, service_schemas, all_operations, all_entities,
                   entity_complex_ops, schemaVars, mapperVars, fakeVars, runVars>>

CallFindComplexOperations ==
    /\ pc = "grouped"
    /\ pc' = "classified"
    /\ entity_complex_ops' = FindComplexOperations(all_operations, entity_operations)
    /\ UNCHANGED <<openapi_specs, service_schemas, all_operations, all_entities,
                   entity_operations, schemaVars, mapperVars, fakeVars, runVars>>

NextEntities ==
    \/ CallExtractSchemasAndOperations
    \/ CallGroupOperationsByEntity
    \/ CallFindComplexOperations

SpecEntities == InitEntities /\ [][NextEntities]_vars

----------------------------------------------------------------------------
(* MapperFieldAnalyzer.analyze_entity_mappings (libs/utils) and the        *)
(* relation mappings of ApplicationGenerator.generate_mapper               *)
(* A schema's "properties" is the sequence of its keys in insertion order. *)

Str_RequestContent == Str_Request \o Str_ContentSuffix
Str_status == <<"s", "t", "a", "t", "u", "s">>
Str_createdAt == <<"c", "r", "e", "a", "t", "e", "d", "A", "t">>
Str_updatedAt == <<"u", "p", "d", "a", "t", "e", "d", "A", "t">>

\* the order of two characters by code point (letters only)
CodePoint(c) ==
    LET letters == UpperLetters \o LowerLetters
    IN CHOOSE i \in DOMAIN letters : letters[i] = c

\* a < b for two Python strings
StrLess(a, b) ==
    \/ Len(a) < Len(b) /\ SubSeq(b, 1, Len(a)) = a
    \/ \E i \in 1..Len(a) :
          /\ i <= Len(b)
          /\ SubSeq(a, 1, i - 1) = SubSeq(b, 1, i - 1)
          /\ CodePoint(a[i]) < CodePoint(b[i])

\* sorted(S) for a set of strings
Sorted(S) ==
    [i \in 1..Cardinality(S) |->
        CHOOSE x \in S : Cardinality({y \in S : StrLess(y, x)}) = i - 1]

\* schema.get('properties', {}).keys()
PropertyKeys(schema) == IF Has(schema, "properties") THEN schema["properties"] ELSE <<>>

\* schemas.get(name, {})
SchemaOrEmpty(all, name) == IF name \in DOMAIN all THEN all[name] ELSE EmptyDict

\* a mutant of ExcludedFields: the entity's own key is not excluded
ExcludedFieldsWithoutOwnId(entity) == {Str_status, Str_createdAt, Str_updatedAt}

\* lines 33-34: the fields that are never reported
ExcludedFields(entity) ==
    {Str_status, Str_createdAt, Str_updatedAt, Lower(entity) \o Str_Id}

\* lines 23-34, for the request schema named {prefix}{entity}RequestContent
UnmappedFields(all, entity, prefix) ==
    (Elems(PropertyKeys(SchemaOrEmpty(all, entity)))
        \ Elems(PropertyKeys(SchemaOrEmpty(all, prefix \o entity \o Str_RequestContent))))
    \ ExcludedFields(entity)

FieldNames(fields) == [i \in DOMAIN fields |-> [fieldName |-> fields[i]]]

\* analyze_entity_mappings, lines 19-40
AnalyzeEntityMappings(all, entity) ==
    [unmappedTargetFields |-> FieldNames(Sorted(UnmappedFields(all, entity, Str_Create))),
     unmappedUpdateFields |-> FieldNames(Sorted(UnmappedFields(all, entity, Str_Update))),
     hasUnmappedFields |-> \/ Cardinality(UnmappedFields(all, entity, Str_Create)) > 0
                           \/ Cardinality(UnmappedFields(all, entity, Str_Update)) > 0]

\* generate_mapper, lines 38-42 and 47-59: the data of the first schema of a
\* document, in the order of its components.schemas, whose name contains the
\* entity's name and the word; EmptyDict when the loop ends without a match.
\* A document's schemas are a sequence of <<name, data>>.
FirstSchemaWith(schema_items, entity, word) ==
    LET hits == {i \in DOMAIN schema_items :
                    Contains(schema_items[i][1], entity) /\ Contains(schema_items[i][1], word)}
    IN IF hits = {} THEN EmptyDict
       ELSE schema_items[CHOOSE i \in hits : \A j \in hits : i <= j][2]

\* lines 33-42
DomainFields(specs, entity) ==
    UNION {Elems(PropertyKeys(FirstSchemaWith(specs[i].schemas, entity, Str_Response))) :
               i \in DOMAIN specs}

\* lines 51-52: a property that names a relation
IsRelationProperty(prop_name, entity) ==
    EndsWith(prop_name, Str_Id) /\ prop_name # Lower(entity) \o Str_Id

\* line 52: prop_name[:-2]
TargetField(prop_name) == SubSeq(prop_name, 1, Len(prop_name) - 2)

\* lines 47-59 for one document
RelationMappingsOfSpec(schema_items, entity, fields) ==
    LET props == PropertyKeys(FirstSchemaWith(schema_items, entity, Str_Request))
        kept == SelectSeq(props, LAMBDA p : IsRelationProperty(p, entity)
                                            /\ TargetField(p) \in fields)
    IN [i \in DOMAIN kept |-> [sourceField |-> kept[i], targetField |-> TargetField(kept[i])]]

\* lines 44-59
RelationMappings(specs, entity) ==
    Flatten([i \in DOMAIN specs |->
                RelationMappingsOfSpec(specs[i].schemas, entity, DomainFields(specs, entity))])

----------------------------------------------------------------------------
(* The schemas the mappers are generated from *)

Str_Zip == <<"Z", "i", "p">>
Str_region == <<"r", "e", "g", "i", "o", "n">>
Str_city == <<"c", "i", "t", "y">>

PropertyLists ==
    {<<Str_cityId, Str_name, Str_regionId, Str_createdAt, Str_updatedAt, Str_status>>,
     <<Str_name>>,
     <<Str_name, Str_regionId>>,
     <<Str_regionId, Str_name, Str_Zip, Str_countryId>>,
     <<Str_region, Str_country, Str_city, Str_name>>,
     <<Str_name, Str_regionId, Str_countryId, Str_cityId>>,
     <<>>}

\* a schema with properties, one without the key, and `absent`: no such schema
Absent == [absent |-> TRUE]

SchemaChoices == {[properties |-> l] : l \in PropertyLists} \cup {EmptyDict, Absent}

DomainChoices ==
    {[properties |-> <<Str_cityId, Str_name, Str_regionId, Str_createdAt,
                       Str_updatedAt, Str_status>>],
     [properties |-> <<Str_regionId, Str_name, Str_Zip, Str_countryId>>],
     [properties |-> <<Str_region, Str_country, Str_city, Str_name>>],
     EmptyDict, Absent}

ResponseChoices ==
    {[properties |-> <<Str_region, Str_country, Str_city, Str_name>>],
     [properties |-> <<Str_name, Str_regionId>>],
     EmptyDict, Absent}

Entities == {Str_City, Str_Country}

\* components.schemas in insertion order: the schemas that are present
SchemaItems(named) == SelectSeq(named, LAMBDA item : item[2] # Absent)

\* the same schemas as a dict
SchemaDict(items) ==
    [n \in {items[i][1] : i \in DOMAIN items} |->
        items[CHOOSE i \in DOMAIN items : items[i][1] = n][2]]

----------------------------------------------------------------------------
(* SpecMapper: analyze_entity_mappings and generate_mapper on one document *)

InitMapper ==
    /\ pc = "start"
    /\ entity_name \in Entities
    /\ \E domain \in DomainChoices, response \in ResponseChoices,
          create \in SchemaChoices, update \in SchemaChoices, createFirst \in BOOLEAN :
          LET createItem == <<Str_Create \o entity_name \o Str_RequestContent, create>>
              updateItem == <<Str_Update \o entity_name \o Str_RequestContent, update>>
              items == SchemaItems(
                           <<(<<entity_name, domain>>)>>
                           \o (IF createFirst THEN <<createItem, updateItem>>
                               ELSE <<updateItem, createItem>>)
                           \o <<(<<entity_name \o Str_Response, response>>)>>)
          IN /\ analyzer_schemas = SchemaDict(items)
             /\ generator_specs = <<[service_name |-> Str_geo, schemas |-> items]>>
    /\ mapping_analysis = Unused
    /\ domain_fields = Unused
    /\ relation_mappings = Unused
    /\ SchemaVarsUnused /\ EntityVarsUnused /\ FakeVarsUnused /\ RunVarsUnused

CallAnalyzeEntityMappings ==
    /\ pc = "start"
    /\ pc' = "analyzed"
    /\ mapping_analysis' = AnalyzeEntityMappings(analyzer_schemas, entity_name)
    /\ UNCHANGED <<entity_name, analyzer_schemas, generator_specs, domain_fields,
                   relation_mappings, schemaVars, entityVars, fakeVars, runVars>>

CallGenerateMapper ==
    /\ pc = "analyzed"
    /\ pc' = "mapped"
    /\ domain_fields' = DomainFields(generator_specs, entity_name)
    /\ relation_mappings' = RelationMappings(generator_specs, entity_name)
    /\ UNCHANGED <<entity_name, analyzer_schemas, generator_specs, mapping_analysis,
                   schemaVars, entityVars, fakeVars, runVars>>

NextMapper == CallAnalyzeEntityMappings \/ CallGenerateMapper

SpecMapper == InitMapper /\ [][NextMapper]_vars

----------------------------------------------------------------------------
(* FakeDataGenerator (libs/pyfake-datagen): schema_processor.py,           *)
(* jsf_generator.py and fake_data_generator.py                             *)
(* A service directory is a function from the stems of its *.json files to *)
(* their contents; the fake-data directories are a function from the       *)
(* services that have one to the files in it.                              *)

Str_all_schemas == <<"a", "l", "l", "_", "s", "c", "h", "e", "m", "a", "s">>
Str_generation_report == <<"g", "e", "n", "e", "r", "a", "t", "i", "o", "n", "_",
                           "r", "e", "p", "o", "r", "t">>
Str_pycache == <<"_", "_", "p", "y", "c", "a", "c", "h", "e", "_", "_">>
Str_HashSlash == <<"#", "/">>

\* find_request_schemas, lines 26-29
IsRequestSchema(stem) ==
    /\ Contains(stem, Str_Request)
    /\ ~Contains(stem, Str_Response)
    /\ ~Contains(stem, Str_ContentSuffix)
    /\ stem \notin {Str_all_schemas, Str_generation_report}

\* the dicts directly below a schema: the property schemas, items, a dict
\* under additionalProperties, the members of allOf
SubSchemas(schema) ==
    (IF Has(schema, "properties")
     THEN {schema["properties"][p] : p \in DOMAIN schema["properties"]} ELSE {})
    \cup (IF Has(schema, "items") THEN {schema["items"]} ELSE {})
    \cup (IF Has(schema, "additionalProperties") /\ schema["additionalProperties"].dict
          THEN {schema["additionalProperties"].s} ELSE {})
    \cup (IF Has(schema, "allOf") THEN Elems(schema["allOf"]) ELSE {})

\* _has_unresolved_refs, lines 72-84
RECURSIVE HasUnresolvedRefs(_)
HasUnresolvedRefs(schema) ==
    \/ Has(schema, "$ref") /\ StartsWith(schema["$ref"], Str_HashSlash)
    \/ \E c \in SubSchemas(schema) : HasUnresolvedRefs(c)

RECURSIVE ResolveRefs(_, _)

\* a mutant of ResolveRefs: a reference that cannot be resolved is left in place
ResolveRefsKeepsUnresolved(schema, schema_dir) ==
    IF Has(schema, "$ref")
    THEN IF /\ StartsWith(schema["$ref"], Str_RefPrefix)
            /\ LastSegment(schema["$ref"]) \in DOMAIN schema_dir
         THEN PopAll(schema_dir[LastSegment(schema["$ref"])], {"x-metadata"})
         ELSE schema
    ELSE IF \E c \in SubSchemas(schema) : ResolveRefs(c, schema_dir) = None
         THEN schema
         ELSE [k \in DOMAIN schema |->
                 CASE k = "properties" ->
                        [p \in DOMAIN schema[k] |-> ResolveRefs(schema[k][p], schema_dir)]
                   [] k = "items" -> ResolveRefs(schema[k], schema_dir)
                   [] k = "additionalProperties" ->
                        IF schema[k].dict
                        THEN [dict |-> TRUE, b |-> FALSE,
                              s |-> ResolveRefs(schema[k].s, schema_dir)]
                        ELSE schema[k]
                   [] k = "allOf" ->
                        [i \in DOMAIN schema[k] |-> ResolveRefs(schema[k][i], schema_dir)]
                   [] OTHER -> schema[k]]

\* _resolve_refs, lines 86-136.  A dict with a $ref is replaced by the
\* contents of the sibling file named by the last segment, without its
\* x-metadata and not resolved further; it gives None when that file does
\* not exist and (the if of line 92 has no else) when the reference does not
\* start with '#/components/schemas/'.  Any other dict or list is rebuilt
\* from its resolved values and gives None as soon as one of them is None.
ResolveRefs(schema, schema_dir) ==
    IF Has(schema, "$ref")
    THEN IF /\ StartsWith(schema["$ref"], Str_RefPrefix)
            /\ LastSegment(schema["$ref"]) \in DOMAIN schema_dir
         THEN PopAll(schema_dir[LastSegment(schema["$ref"])], {"x-metadata"})
         ELSE None
    ELSE IF \E c \in SubSchemas(schema) : ResolveRefs(c, schema_dir) = None
         THEN None
         ELSE [k \in DOMAIN schema |->
                 CASE k = "properties" ->
                        [p \in DOMAIN schema[k] |-> ResolveRefs(schema[k][p], schema_dir)]
                   [] k = "items" -> ResolveRefs(schema[k], schema_dir)
                   [] k = "additionalProperties" ->
                        IF schema[k].dict
                        THEN [dict |-> TRUE, b |-> FALSE,
                              s |-> ResolveRefs(schema[k].s, schema_dir)]
                        ELSE schema[k]
                   [] k = "allOf" ->
                        [i \in DOMAIN schema[k] |-> ResolveRefs(schema[k][i], schema_dir)]
                   [] OTHER -> schema[k]]

\* what JSF(schema).generate() followed by _apply_custom_fake_data can do:
\* give data, give an empty value, raise
JsfOutcomes == {"data", "empty", "error"}

\* generate_from_schema, lines 42-70; outcome is what the library does
GenerateFromSchema(stem, schema_dir, outcome) ==
    LET schema == IF HasUnresolvedRefs(schema_dir[stem])
                  THEN ResolveRefs(schema_dir[stem], schema_dir)
                  ELSE schema_dir[stem]
    IN IF schema = None \/ (HasUnresolvedRefs(schema_dir[stem]) /\ schema = EmptyDict)
       THEN None
       ELSE CASE outcome = "error" -> None
              [] outcome = "empty" -> EmptyDict
              [] OTHER -> [generated_from |-> schema]

\* `if fake_data:` at line 46
Truthy(value) == value # None /\ value # EmptyDict

\* lines 39-49 for one service directory: the files written to fake-data
FakeDataOf(schema_dir, outcomes) ==
    LET request_schemas == {stem \in DOMAIN schema_dir : IsRequestSchema(stem)}
        written == {stem \in request_schemas :
                       Truthy(GenerateFromSchema(stem, schema_dir, outcomes[stem]))}
    IN [stem \in written |-> GenerateFromSchema(stem, schema_dir, outcomes[stem])]

\* the service directories the loop of lines 31-32 works on
ProcessedServices(dirs) == DOMAIN dirs \ {Str_pycache}

\* FakeDataDirs without the rmtree of lines 35-37: the files of an earlier
\* run stay next to the ones written
FakeDataDirsKeepingFiles(dirs, before, outcomes) ==
    LET made == {s \in ProcessedServices(dirs) :
                    \E stem \in DOMAIN dirs[s] : IsRequestSchema(stem)}
    IN [s \in made \cup DOMAIN before |->
            IF s \in made
            THEN IF s \in DOMAIN before
                 THEN FakeDataOf(dirs[s], outcomes) @@ before[s]
                 ELSE FakeDataOf(dirs[s], outcomes)
            ELSE before[s]]

\* lines 31-49: the fake-data directories after the run; the directory of a
\* processed service is removed, and made again when the service has a
\* request schema
FakeDataDirs(dirs, before, outcomes) ==
    LET made == {s \in ProcessedServices(dirs) :
                    \E stem \in DOMAIN dirs[s] : IsRequestSchema(stem)}
        kept == DOMAIN before \ ProcessedServices(dirs)
    IN [s \in made \cup kept |->
            IF s \in made THEN FakeDataOf(dirs[s], outcomes) ELSE before[s]]

RECURSIVE SumOver(_, _)
SumOver(S, f) ==
    IF S = {} THEN 0
    ELSE LET x == CHOOSE y \in S : TRUE IN f[x] + SumOver(S \ {x}, f)

\* generate_fake_data, lines 28-51: the returned total_files
TotalFiles(dirs, outcomes) ==
    SumOver(ProcessedServices(dirs),
            [s \in ProcessedServices(dirs) |->
                Cardinality(DOMAIN FakeDataOf(dirs[s], outcomes))])

----------------------------------------------------------------------------
(* The schema directories fake data is generated for *)

Str_CreateCityRequest == Str_CreateCity \o Str_Request
Str_UpdateCityRequest == Str_UpdateCity \o Str_Request
Str_Old == <<"O", "l", "d">>

NamePlain == ObjectOf([p \in {Str_name} |-> StringSchema])

RefTo(target) == ("$ref" :> target)

\* request schemas: without references; a reference at the top, under a
\* property, two levels down, under items and inside allOf; to a component
\* file that may exist, to one that never does, with another prefix
CreateRequestFiles ==
    {NamePlain,
     RefTo(Ref(Str_Country)),
     RefTo(Ref(Str_Missing)),
     ObjectOf([p \in {Str_body} |-> RefTo(Ref(Str_Country))]),
     ObjectOf([p \in {Str_body} |-> RefTo(Ref(Str_Missing))]),
     ObjectOf([p \in {Str_body} |-> ObjectOf([q \in {Str_country} |-> RefTo(Ref(Str_Missing))])]),
     [type |-> ScalarType("array"), items |-> RefTo(Str_DefinitionsPrefix \o Str_Country)],
     [allOf |-> <<RefTo(Ref(Str_Country)), RefTo(Ref(Str_Content))>>],
     ObjectOf([p \in {Str_body, Str_country} |->
                  IF p = Str_body THEN RefTo(Ref(Str_Content)) ELSE RefTo(Ref(Str_Country))]),
     Absent}

UpdateRequestFiles ==
    {NamePlain, ObjectOf([p \in {Str_body} |-> RefTo(Ref(Str_Missing))]), Absent}

\* the component file Country.json: an object with x-metadata, nothing but
\* x-metadata, a schema that holds a reference of its own, no such file
CountryFiles ==
    {Put(CountryPlain, "x-metadata", [schema_name |-> Str_Country]),
     ("x-metadata" :> [schema_name |-> Str_Country]),
     ObjectOf([p \in {Str_body} |-> RefTo(Ref(Str_Missing))]),
     Absent}

ContentFiles == {ContentPlain, Absent}

\* a directory holds the files that are not Absent
DirectoryOf(files) == [stem \in {s \in DOMAIN files : files[s] # Absent} |-> files[stem]]

ServiceDirs ==
    {DirectoryOf([stem \in {Str_CreateCityRequest, Str_UpdateCityRequest,
                            Str_Country, Str_Content} |->
                     CASE stem = Str_CreateCityRequest -> create
                       [] stem = Str_UpdateCityRequest -> update
                       [] stem = Str_Country -> country
                       [] OTHER -> content]) :
        create \in CreateRequestFiles, update \in UpdateRequestFiles,
        country \in CountryFiles, content \in ContentFiles}

\* what stands next to the directory of service geo: nothing, a __pycache__
\* directory, a second service with a request schema, a second service whose
\* only file is a response schema with Request in its stem
OtherDirs ==
    {EmptyDict,
     (Str_pycache :> (Str_CreateCityRequest :> NamePlain)),
     (Str_users :> (Str_UpdateCityRequest :> NamePlain)),
     (Str_users :> (Str_UpdateCityRequest \o Str_Response :> NamePlain))}

\* the files of a fake-data directory left by an earlier run
StaleFiles ==
    [stem \in {Str_CreateCityRequest, Str_Old} |-> [generated_from |-> NamePlain]]

----------------------------------------------------------------------------
(* SpecFake: generate_fake_data on a schemas directory *)

InitFake ==
    /\ pc = "start"
    /\ \E geo \in ServiceDirs, others \in OtherDirs :
          schemas_dir = [s \in {Str_geo} \cup DOMAIN others |->
                            IF s = Str_geo THEN geo ELSE others[s]]
    /\ fake_data_dir \in {EmptyDict, [s \in DOMAIN schemas_dir |-> StaleFiles]}
    /\ jsf \in [{Str_CreateCityRequest, Str_UpdateCityRequest} -> JsfOutcomes]
    /\ total_files = Unused
    /\ SchemaVarsUnused /\ EntityVarsUnused /\ MapperVarsUnused /\ RunVarsUnused

CallGenerateFakeData ==
    /\ pc = "start"
    /\ pc' = "generated"
    /\ fake_data_dir' = FakeDataDirs(schemas_dir, fake_data_dir, jsf)
    /\ total_files' = TotalFiles(schemas_dir, jsf)
    /\ UNCHANGED <<schemas_dir, jsf, schemaVars, entityVars, mapperVars, runVars>>

NextFake == CallGenerateFakeData

SpecFake == InitFake /\ [][NextFake]_vars

----------------------------------------------------------------------------
(* OpenApiProcessor.load_openapi_specs (pyjava-backend-codegen), followed  *)
(* by the scan of the loaded documents                                     *)
(* A file is [stem, content]: stem is Path(file_path).stem, content is the *)
(* parsed JSON object, or Unloadable when open() or json.load() raises.    *)

Str_Service == <<"S", "e", "r", "v", "i", "c", "e">>
Str_DotOpenapi == <<".", "o", "p", "e", "n", "a", "p", "i">>
Str_GeoServiceStem == <<"G", "e", "o">> \o Str_Service \o Str_DotOpenapi
Str_usersStem == Str_users \o Str_DotOpenapi

\* a file that open() or json.load() raises on, with the exception raised
Unloadable(exception) == [unloadable |-> exception]

IsUnloadable(content) == DOMAIN content = {"unloadable"}

\* _extract_service_name_from_path, lines 57-63
ExtractServiceNameFromPath(stem) ==
    LET service_name == RemoveAll(stem, Str_DotOpenapi)
    IN Lower(IF EndsWith(service_name, Str_Service)
             THEN SubSeq(service_name, 1, Len(service_name) - Len(Str_Service))
             ELSE service_name)

\* lines 36-41 with the .get() chains of lines 84 and 94: the entry appended
\* for a file that was parsed
LoadedSpec(file) ==
    [service_name |-> ExtractServiceNameFromPath(file.stem),
     schemas |-> Get(Get(file.content, "components", EmptyDict), "schemas", EmptyDict),
     paths |-> Get(file.content, "paths", <<>>)]

\* load_openapi_specs, lines 26-44: no file found raises (lines 30-31); the
\* loop has no try block, so the first file that cannot be opened or parsed
\* ends the call with its exception and no list is returned
LoadOpenapiSpecs(files) ==
    IF files = <<>>
    THEN [raised |-> "FileNotFoundError"]
    ELSE IF \E i \in DOMAIN files : IsUnloadable(files[i].content)
    THEN LET first == CHOOSE i \in DOMAIN files :
                          /\ IsUnloadable(files[i].content)
                          /\ \A j \in 1..(i - 1) : ~IsUnloadable(files[j].content)
         IN [raised |-> files[first].content.unloadable]
    ELSE [specs |-> [i \in DOMAIN files |-> LoadedSpec(files[i])]]

\* the contents of the files: whole documents, documents without components,
\* without components.schemas, without paths, without both, and unreadable files
FileContents ==
    {("components" :> ("schemas" :> SchemasNamed({Str_CityResponse})))
        @@ ("paths" :> CityCrudPaths),
     ("components" :> ("schemas" :> SchemasNamed({Str_LocationResponse})))
        @@ ("paths" :> << <<(<<"get", OperationWithId(Str_GetLocation)>>)>> >>),
     ("components" :> ("schemas" :> SchemasNamed({Str_LocationResponse}))),
     ("components" :> EmptyDict)
        @@ ("paths" :> << <<(<<"get", OperationWithId(Str_GetCity)>>)>> >>),
     ("paths" :> << <<(<<"post", OperationWithId(Str_CreateCity)>>)>> >>),
     EmptyDict,
     Unloadable("JSONDecodeError"),
     Unloadable("PermissionError")}

FileLists ==
    {<<>>}
    \cup {<<[stem |-> Str_GeoServiceStem, content |-> c]>> : c \in FileContents}
    \cup {<<[stem |-> Str_GeoServiceStem, content |-> c],
            [stem |-> Str_usersStem, content |-> d]>> : c, d \in FileContents}

InitLoad ==
    /\ pc = "files"
    /\ openapi_files \in FileLists
    /\ run_error = None
    /\ WalkVarsUnused /\ GenVarsUnused /\ TestVarsUnused /\ DtoVarsUnused
    /\ openapi_specs = Unused
    /\ service_schemas = Unused
    /\ all_operations = Unused
    /\ all_entities = Unused
    /\ entity_operations = Unused
    /\ entity_complex_ops = Unused
    /\ SchemaVarsUnused /\ MapperVarsUnused /\ FakeVarsUnused

\* the call returns the list and the run goes on with it
LoadReturns ==
    /\ pc = "files"
    /\ "specs" \in DOMAIN LoadOpenapiSpecs(openapi_files)
    /\ pc' = "start"
    /\ openapi_specs' = LoadOpenapiSpecs(openapi_files).specs
    /\ UNCHANGED <<openapi_files, run_error, service_schemas, all_operations,
                   all_entities, entity_operations, entity_complex_ops,
                   walkVars, genVars, testVars, dtoVars,
                   schemaVars, mapperVars, fakeVars>>

\* the call raises: nothing is returned and no document is scanned
LoadRaises ==
    /\ pc = "files"
    /\ "raised" \in DOMAIN LoadOpenapiSpecs(openapi_files)
    /\ pc' = "raised"
    /\ run_error' = LoadOpenapiSpecs(openapi_files).raised
    /\ UNCHANGED <<openapi_files, walkVars, genVars, testVars, dtoVars,
                   entityVars, schemaVars, mapperVars, fakeVars>>

CallLoadOpenapiSpecs == LoadReturns \/ LoadRaises

NextLoad ==
    \/ CallLoadOpenapiSpecs
    \/ CallExtractSchemasAndOperations
    \/ CallGroupOperationsByEntity
    \/ CallFindComplexOperations

SpecLoad == InitLoad /\ [][NextLoad]_vars

----------------------------------------------------------------------------
(* The recursion of _expand_refs_in_schema and of _resolve_refs, call by   *)
(* call: call_stack holds the arguments of the calls still to be made, the *)
(* next one first.  Calls on strings, numbers and booleans return at once  *)
(* and are left out.                                                       *)

\* a mutant of ExpandCallees: the target of a reference is walked as well
ExpandCalleesFollowingRefs(schema, all_schemas) ==
    IF Has(schema, "$ref")
    THEN IF /\ IsInternalRef(schema["$ref"])
            /\ Has(all_schemas, LastSegment(schema["$ref"]))
         THEN {all_schemas[LastSegment(schema["$ref"])]}
         ELSE {}
    ELSE SubSchemas(schema)

\* schema_converter.py lines 166-188: the recursive calls one call makes.  A
\* dict with a $ref makes none: its target goes to
\* _convert_openapi_schema_to_jsonschema (line 175), which reads no reference,
\* or the dict is returned (lines 178, 180); any other dict calls itself on
\* each of its values (lines 184-185)
ExpandCallees(schema, all_schemas) ==
    IF Has(schema, "$ref") THEN {} ELSE SubSchemas(schema)

\* jsf_generator.py lines 89-121: a dict with a $ref returns the loaded file
\* or None (lines 98-106), any other dict calls itself on its dict and list
\* values (lines 110-113)
ResolveCallees(schema, schema_dir) ==
    IF Has(schema, "$ref") THEN {} ELSE SubSchemas(schema)

\* component sets whose references form a cycle: a property of Content refers
\* to Content; Content and Country refer to each other; Content is a
\* reference to itself
CyclicComponentSets ==
    { [n \in {Str_Content, Str_Country} |->
          IF n = Str_Content
          THEN ObjectOf([p \in {Str_country} |-> ("$ref" :> Ref(Str_Content))])
          ELSE CountryPlain],
      [n \in {Str_Content, Str_Country} |->
          IF n = Str_Content
          THEN ObjectOf([p \in {Str_country} |-> ("$ref" :> Ref(Str_Country))])
          ELSE [type |-> ScalarType("array"), items |-> ("$ref" :> Ref(Str_Content))]],
      [n \in {Str_Content, Str_Country} |->
          IF n = Str_Content THEN ("$ref" :> Ref(Str_Content)) ELSE CountryPlain] }

\* a schema with two references next to each other
TwoReferences ==
    ObjectOf([p \in {Str_body, Str_country} |->
                 IF p = Str_body THEN ("$ref" :> Ref(Str_Content))
                 ELSE ("$ref" :> Ref(Str_Country))])

\* the schemas handed to _expand_refs_in_schema: references, schemas with a
\* reference under properties, items or additionalProperties, with two
\* references, without any
WalkedSchemas ==
    LET refs == {("$ref" :> r) : r \in RefPaths}
    IN refs
       \cup {ObjectOf([p \in {Str_body} |-> r]) : r \in refs}
       \cup {[type |-> ScalarType("array"), items |-> r] : r \in refs}
       \cup {[type |-> ScalarType("object"), additionalProperties |-> SchemaAP(r)] :
               r \in refs}
       \cup {TwoReferences, ContentPlain}

\* the files Country.json and Content.json of a directory, with the same
\* cycles, and without one
ComponentFiles ==
    { [n \in {Str_Content, Str_Country} |->
          IF n = Str_Content
          THEN Put(ObjectOf([p \in {Str_country} |-> RefTo(Ref(Str_Content))]),
                   "x-metadata", [schema_name |-> Str_Content])
          ELSE CountryPlain],
      [n \in {Str_Content, Str_Country} |->
          IF n = Str_Content
          THEN ObjectOf([p \in {Str_country} |-> RefTo(Ref(Str_Country))])
          ELSE [allOf |-> <<RefTo(Ref(Str_Content))>>]],
      [n \in {Str_Content, Str_Country} |->
          IF n = Str_Content THEN RefTo(Ref(Str_Content)) ELSE CountryPlain],
      [n \in {Str_Country} |-> CountryPlain] }

\* the request schema the directory holds next to them; the last one refers
\* to itself
WalkedRequestFiles ==
    (CreateRequestFiles \ {Absent})
    \cup {TwoReferences, RefTo(Ref(Str_CreateCityRequest)),
          ObjectOf([p \in {Str_body} |-> RefTo(Ref(Str_CreateCityRequest))])}

InitWalk ==
    /\ \/ /\ pc = "expanding"
          /\ openapi_schema \in WalkedSchemas
          /\ schemas \in ComponentSets \cup CyclicComponentSets
          /\ call_stack = <<openapi_schema>>
          /\ resolve_arg = Unused /\ resolve_dir = Unused
       \/ /\ pc = "resolving"
          /\ resolve_arg \in WalkedRequestFiles
          /\ \E files \in ComponentFiles :
                resolve_dir = [n \in DOMAIN files \cup {Str_CreateCityRequest} |->
                                  IF n = Str_CreateCityRequest THEN resolve_arg
                                  ELSE files[n]]
          /\ call_stack = <<resolve_arg>>
          /\ openapi_schema = Unused /\ schemas = Unused
    /\ expanded = Unused /\ resolved = Unused
    /\ schemas_after = Unused
    /\ title = Unused /\ arg_after = Unused /\ json_schema = Unused
    /\ json_schema2 = Unused /\ operation = Unused /\ method = Unused
    /\ composite = Unused /\ composite_schemas = Unused /\ paths = Unused
    /\ converted_schemas = Unused
    /\ LoadVarsUnused /\ GenVarsUnused /\ TestVarsUnused /\ DtoVarsUnused
    /\ EntityVarsUnused /\ MapperVarsUnused /\ FakeVarsUnused

\* the next call of _expand_refs_in_schema is made
ExpandCall ==
    /\ pc = "expanding"
    /\ call_stack # <<>>
    /\ \E order \in Orderings(ExpandCallees(Head(call_stack), schemas)) :
          call_stack' = order \o Tail(call_stack)
    /\ UNCHANGED <<pc, schemaVars, entityVars, mapperVars, fakeVars,
                   loadVars, genVars, testVars, dtoVars,
                   resolve_arg, resolve_dir, resolved>>

\* the outermost call returns
ExpandReturn ==
    /\ pc = "expanding"
    /\ call_stack = <<>>
    /\ pc' = "expanded"
    /\ expanded' = Expand(openapi_schema, schemas)
    /\ schemas_after' = ExpandedAllSchemas(openapi_schema, schemas)
    /\ UNCHANGED <<openapi_schema, title, arg_after, json_schema, json_schema2,
                   operation, method, composite, composite_schemas, schemas, paths,
                   converted_schemas,
                   entityVars, mapperVars, fakeVars, runVars>>

\* the next call of _resolve_refs is made; None from a reference ends every
\* call that is open (lines 115-116 and 127-128)
ResolveCall ==
    /\ pc = "resolving"
    /\ call_stack # <<>>
    /\ IF /\ Has(Head(call_stack), "$ref")
          /\ ResolveRefs(Head(call_stack), resolve_dir) = None
       THEN call_stack' = <<>>
       ELSE \E order \in Orderings(ResolveCallees(Head(call_stack), resolve_dir)) :
               call_stack' = order \o Tail(call_stack)
    /\ UNCHANGED <<pc, schemaVars, entityVars, mapperVars, fakeVars,
                   loadVars, genVars, testVars, dtoVars,
                   resolve_arg, resolve_dir, resolved>>

ResolveReturn ==
    /\ pc = "resolving"
    /\ call_stack = <<>>
    /\ pc' = "resolved"
    /\ resolved' = ResolveRefs(resolve_arg, resolve_dir)
    /\ UNCHANGED <<schemaVars, entityVars, mapperVars, fakeVars,
                   loadVars, genVars, testVars, dtoVars,
                   call_stack, resolve_arg, resolve_dir>>

NextWalk == ExpandCall \/ ExpandReturn \/ ResolveCall \/ ResolveReturn

\* one thread runs the calls: a call that can be made is made
SpecWalk == InitWalk /\ [][NextWalk]_vars /\ WF_vars(NextWalk)

----------------------------------------------------------------------------
(* SchemaGenerator.generate_schemas (pygenerate-schemasgen): every service *)
(* directory, every *.json file of it whose name holds "openapi"           *)
(* A file is [name, content]; content is the parsed JSON object, with the  *)
(* entries of its paths table in iteration order, or Unloadable.           *)

Str_openapi == <<"o", "p", "e", "n", "a", "p", "i">>
Str_DotJson == <<".", "j", "s", "o", "n">>
Str_FirstFile == <<"a">> \o Str_DotOpenapi \o Str_DotJson
Str_SecondFile == <<"b", ".", "O", "p", "e", "n", "A", "P", "I">> \o Str_DotJson
Str_ModelFile == <<"m", "o", "d", "e", "l">> \o Str_DotJson

\* extract_schemas_from_openapi, lines 193-228: nothing for a file load_json
\* gave None for (lines 198-200) and for a document without component
\* schemas (lines 203-205)
ExtractSchemasFromOpenapi(file) ==
    IF IsUnloadable(file.content) \/ file.content = EmptyDict
    THEN EmptyDict
    ELSE ExtractSchemas(Get(Get(file.content, "components", EmptyDict), "schemas", EmptyDict),
                        Get(file.content, "paths", <<>>),
                        file.name)

\* a mutant of MergeSchemas: a name that is already there keeps its schema
MergeKeepingFirst(earlier, later) == Update(later, earlier)

\* schema_generator.py line 43: service_schemas.update(schemas)
MergeSchemas(earlier, later) == Update(earlier, later)

\* line 41
IsOpenApiFile(file) == Contains(Lower(file.name), Str_openapi)

PostCreateCity(parameters) ==
    <<<<"p", "o", "s", "t">>,
      [operationId |-> Str_CreateCity,
       parameters |-> parameters,
       requestBody |-> JsonBody("$ref" :> Ref(Str_Content))]>>

CityIdParam == [in |-> "path", required |-> TRUE, name |-> Str_cityId]

\* documents: components and one operation with a composite schema, bare or
\* wrapped; a component named like the composite schema of the operation; the
\* same without any composite schema; another Country, with no paths; paths
\* only; a file that cannot be parsed
GeneratorDocuments ==
    {("components" :> ("schemas" :>
          [n \in {Str_Content, Str_Country} |->
              IF n = Str_Content THEN ContentPlain ELSE CountryPlain]))
        @@ ("paths" :> <<PostCreateCity(<<>>)>>),
     ("components" :> ("schemas" :>
          [n \in {Str_Content, Str_CreateCityRequest} |->
              IF n = Str_Content THEN ContentPlain ELSE NamePlain]))
        @@ ("paths" :> <<PostCreateCity(<<CityIdParam>>)>>),
     ("components" :> ("schemas" :> [n \in {Str_CreateCityRequest} |-> NamePlain]))
        @@ ("paths" :> << <<(<<"g", "e", "t">>), [operationId |-> Str_GetCity]>> >>),
     ("components" :> ("schemas" :> [n \in {Str_Country} |-> NamePlain])),
     ("paths" :> <<PostCreateCity(<<>>)>>),
     Unloadable("JSONDecodeError")}

GeoFileLists ==
    {<<[name |-> Str_FirstFile, content |-> c]>> : c \in GeneratorDocuments}
    \cup {<<[name |-> Str_FirstFile, content |-> c],
            [name |-> Str_SecondFile, content |-> d]>> : c, d \in GeneratorDocuments}

\* what stands after the files of geo: nothing; a *.json file that is not an
\* OpenAPI document; the directory of a second service
DirectoryLists ==
    {<<>>}
    \cup {<<[service_name |-> Str_geo, files |-> fs]>> : fs \in GeoFileLists}
    \cup {<<[service_name |-> Str_geo,
             files |-> Append(fs, [name |-> Str_ModelFile,
                                   content |-> ("components" :> ("schemas" :>
                                       [n \in {Str_Country} |-> StringSchema]))])]>> :
             fs \in GeoFileLists}
    \cup {<<[service_name |-> Str_geo, files |-> fs],
            [service_name |-> Str_users,
             files |-> <<[name |-> Str_FirstFile,
                          content |-> ("components" :> ("schemas" :>
                              [n \in {Str_Country} |-> StringSchema]))]>>]>> :
             fs \in GeoFileLists}

InitGenerate ==
    /\ pc = "start"
    /\ openapi_dirs \in DirectoryLists
    /\ dir_index = Unused /\ file_index = Unused
    /\ current_schemas = Unused
    /\ generated_schemas = Unused
    /\ total_schemas = Unused
    /\ generate_result = Unused
    /\ run_error = None
    /\ openapi_files = Unused
    /\ WalkVarsUnused /\ TestVarsUnused /\ DtoVarsUnused
    /\ SchemaVarsUnused /\ EntityVarsUnused /\ MapperVarsUnused /\ FakeVarsUnused

\* lines 30-31: no directory
GenerateRaises ==
    /\ pc = "start"
    /\ openapi_dirs = <<>>
    /\ pc' = "raised"
    /\ run_error' = "Exception"
    /\ UNCHANGED <<openapi_files, genVars, walkVars, testVars, dtoVars,
                   schemaVars, entityVars, mapperVars, fakeVars>>

\* lines 28-38: the loop over the directories is entered
EnterDirectories ==
    /\ pc = "start"
    /\ openapi_dirs # <<>>
    /\ pc' = "files"
    /\ generated_schemas' = EmptyDict
    /\ total_schemas' = 0
    /\ dir_index' = 1
    /\ file_index' = 1
    /\ current_schemas' = EmptyDict
    /\ UNCHANGED <<openapi_dirs, generate_result, loadVars, walkVars, testVars, dtoVars,
                   schemaVars, entityVars, mapperVars, fakeVars>>

\* lines 40-43: the next file of the directory
ReadFile ==
    /\ pc = "files"
    /\ file_index <= Len(openapi_dirs[dir_index].files)
    /\ current_schemas' =
          IF IsOpenApiFile(openapi_dirs[dir_index].files[file_index])
          THEN MergeSchemas(current_schemas,
                            ExtractSchemasFromOpenapi(openapi_dirs[dir_index].files[file_index]))
          ELSE current_schemas
    /\ file_index' = file_index + 1
    /\ UNCHANGED <<pc, openapi_dirs, dir_index, generated_schemas, total_schemas,
                   generate_result, loadVars, walkVars, testVars, dtoVars,
                   schemaVars, entityVars, mapperVars, fakeVars>>

\* all_schemas and total_schemas once the files of the directory are read
\* (lines 45-48)
SchemasWithDirectory ==
    IF current_schemas # EmptyDict
    THEN Put(generated_schemas, openapi_dirs[dir_index].service_name, current_schemas)
    ELSE generated_schemas

TotalWithDirectory ==
    IF current_schemas # EmptyDict
    THEN total_schemas + Cardinality(DOMAIN current_schemas)
    ELSE total_schemas

\* lines 45-48, then lines 36-38 for the next directory
NextDirectory ==
    /\ pc = "files"
    /\ file_index > Len(openapi_dirs[dir_index].files)
    /\ dir_index < Len(openapi_dirs)
    /\ generated_schemas' = SchemasWithDirectory
    /\ total_schemas' = TotalWithDirectory
    /\ dir_index' = dir_index + 1
    /\ file_index' = 1
    /\ current_schemas' = EmptyDict
    /\ UNCHANGED <<pc, openapi_dirs, generate_result, loadVars, walkVars, testVars,
                   dtoVars, schemaVars, entityVars, mapperVars, fakeVars>>

\* lines 45-48 for the last directory, then line 53
GenerateReturns ==
    /\ pc = "files"
    /\ file_index > Len(openapi_dirs[dir_index].files)
    /\ dir_index = Len(openapi_dirs)
    /\ pc' = "generated"
    /\ generated_schemas' = SchemasWithDirectory
    /\ total_schemas' = TotalWithDirectory
    /\ generate_result' = <<TotalWithDirectory, Cardinality(DOMAIN SchemasWithDirectory)>>
    /\ UNCHANGED <<openapi_dirs, dir_index, file_index, current_schemas,
                   loadVars, walkVars, testVars, dtoVars,
                   schemaVars, entityVars, mapperVars, fakeVars>>

CallGenerateSchemas ==
    \/ GenerateRaises
    \/ EnterDirectories
    \/ ReadFile
    \/ NextDirectory
    \/ GenerateReturns

NextGenerate == CallGenerateSchemas

SpecGenerate == InitGenerate /\ [][NextGenerate]_vars

----------------------------------------------------------------------------
(* TestGenerator._find_operations_for_entity (pyjava-springboot-backend-   *)
(* codegen), called for an entity once the documents are classified        *)

\* test_generator.py lines 338-342
IsTestOperationOf(op_id, entity) ==
    \/ StartsWith(op_id, Str_Create \o entity)
    \/ StartsWith(op_id, Str_Get \o entity)
    \/ StartsWith(op_id, Str_Update \o entity)
    \/ StartsWith(op_id, Str_Delete \o entity)
    \/ op_id = Str_List \o entity \o Str_s

\* lines 331-347: the operations of every document, in scan order
FindOperationsForEntity(specs, entity) ==
    SelectSeq(AllOperations(specs), LAMBDA o : IsTestOperationOf(o.id, entity))

\* the documents the generators are run on
GeneratorSpecLists ==
    {<<d>> : d \in {e \in FirstDocuments :
                       e.paths \in {CityCrudPaths, CityAndLocationPaths, CityFinderPaths}}}
    \cup {<<d, e>> : d \in {f \in FirstDocuments :
                              f.paths \in {CityCrudPaths, CityFinderPaths}},
                     e \in SecondDocuments}

InitTests ==
    /\ pc = "start"
    /\ openapi_specs \in GeneratorSpecLists
    /\ service_schemas = Unused
    /\ all_operations = Unused
    /\ all_entities = Unused
    /\ entity_operations = Unused
    /\ entity_complex_ops = Unused
    /\ SchemaVarsUnused /\ MapperVarsUnused /\ FakeVarsUnused /\ RunVarsUnused

CallFindOperationsForEntity ==
    /\ pc = "classified"
    /\ pc' = "tested"
    /\ \E entity \in Elems(all_entities) :
          /\ test_entity' = entity
          /\ test_operations' = FindOperationsForEntity(openapi_specs, entity)
    /\ UNCHANGED <<schemaVars, entityVars, mapperVars, fakeVars,
                   loadVars, walkVars, genVars, dtoVars>>

NextTests ==
    \/ CallExtractSchemasAndOperations
    \/ CallGroupOperationsByEntity
    \/ CallFindComplexOperations
    \/ CallFindOperationsForEntity

SpecTests == InitTests /\ [][NextTests]_vars

----------------------------------------------------------------------------
(* DtoGenerator.generate_composite_request_dtos and                        *)
(* _generate_composite_request_dto (pyjava-backend-codegen)                *)
(* A class is [classname, vars]; vars holds [name, dataType] per field.    *)

\* dto_generator.py lines 88-91: '' when there is no JSON content or no $ref
DtoBodySchemaRef(op) ==
    Get(Get(Get(Get(Get(op, "requestBody", EmptyDict), "content", EmptyDict),
                "application/json", EmptyDict),
            "schema", EmptyDict),
        "$ref", <<>>)

\* lines 73-85: one field of type String per required path parameter
DtoParamVars(op) ==
    [i \in 1..Len(RequiredPathParams(op)) |->
        [name |-> RequiredPathParams(op)[i]["name"], dataType |-> <<"S", "t", "r", "i", "n", "g">>]]

\* lines 93-103: the field body, whenever the JSON body is a reference
DtoBodyVars(op) ==
    IF DtoBodySchemaRef(op) # <<>>
    THEN <<[name |-> Str_body, dataType |-> LastSegment(DtoBodySchemaRef(op))]>>
    ELSE <<>>

\* _generate_composite_request_dto, lines 66-128: the class written, None
\* when there is no field (lines 108-109)
GenerateCompositeRequestDto(op, operation_id) ==
    IF DtoParamVars(op) \o DtoBodyVars(op) = <<>>
    THEN None
    ELSE [classname |-> operation_id \o Str_Request,
          vars |-> DtoParamVars(op) \o DtoBodyVars(op)]

\* generate_composite_request_dtos, lines 50-64: the classes written for the
\* entries of a paths table, by class name; a later entry overwrites the file
\* of an earlier one
RECURSIVE GenerateCompositeRequestDtos(_)
GenerateCompositeRequestDtos(entries) ==
    IF entries = <<>> THEN EmptyDict
    ELSE LET n == Len(entries)
             op == entries[n][2]
             operation_id == Get(op, "operationId", <<>>)
             dto == GenerateCompositeRequestDto(op, operation_id)
         IN IF Applies(entries[n][1], op) /\ dto # None
            THEN Put(GenerateCompositeRequestDtos(SubSeq(entries, 1, n - 1)),
                     dto.classname, dto)
            ELSE GenerateCompositeRequestDtos(SubSeq(entries, 1, n - 1))

\* the classes for the paths table the composite schemas were generated for
CallGenerateCompositeRequestDtos ==
    /\ pc = "generated"
    /\ pc' = "emitted"
    /\ dto_fields' = GenerateCompositeRequestDtos(<< <<method, operation>> >>)
    /\ UNCHANGED <<schemaVars, entityVars, mapperVars, fakeVars,
                   loadVars, walkVars, genVars, testVars>>

NextDto ==
    \/ CallBuildComposite
    \/ CallGenerateComposites
    \/ CallGenerateCompositeRequestDtos

SpecDto == InitComposite /\ [][NextDto]_vars

----------------------------------------------------------------------------
(* Claims about _convert_openapi_schema_to_jsonschema (SpecConvert) *)

Count(seq, x) == Cardinality({i \in 1..Len(seq) : seq[i] = x})

IsPrefix(a, b) == Len(a) <= Len(b) /\ SubSeq(b, 1, Len(a)) = a

\* the schemas directly below a schema, as pairs <<child of in, child of out>>
ChildPairs(in, out) ==
    (IF Has(in, "properties") /\ Has(out, "properties")
     THEN {<<in["properties"][p], out["properties"][p]>> :
              p \in (DOMAIN in["properties"]) \cap (DOMAIN out["properties"])}
     ELSE {})
    \cup (IF Has(in, "items") /\ Has(out, "items")
          THEN {<<in["items"], out["items"]>>} ELSE {})
    \cup (IF /\ Has(in, "additionalProperties") /\ Has(out, "additionalProperties")
             /\ in["additionalProperties"].dict /\ out["additionalProperties"].dict
          THEN {<<in["additionalProperties"].s, out["additionalProperties"].s>>}
          ELSE {})

RECURSIVE NullableMerged(_, _)
NullableMerged(in, out) ==
    /\ (Has(in, "nullable") /\ in["nullable"] /\ Has(in, "type")) =>
          /\ ~Has(out, "nullable")
          /\ Has(out, "type") /\ out["type"].list
          /\ IF in["type"].list
             THEN /\ IsPrefix(in["type"].v, out["type"].v)
                  /\ Elems(out["type"].v) = Elems(in["type"].v) \cup {"null"}
                  /\ Len(out["type"].v) = Len(in["type"].v)
                        + (IF "null" \in Elems(in["type"].v) THEN 0 ELSE 1)
                  /\ Count(out["type"].v, "null") = 1
             ELSE out["type"].v = <<in["type"].v[1], "null">>
    /\ \A c \in ChildPairs(in, out) : NullableMerged(c[1], c[2])

\* C1: a schema with nullable true and a scalar type T is converted to one whose
\* type is the list [T, "null"] and that has no nullable key; when the type is
\* already a list, "null" is appended iff it is absent, so it occurs once.  At
\* every level of the schema.
C1_NullableMerge == pc # "start" => NullableMerged(openapi_schema, json_schema)

C1_Witness ==
    /\ pc = "converted"
    /\ Has(openapi_schema, "nullable") /\ openapi_schema["nullable"]
    /\ Has(openapi_schema, "type") /\ openapi_schema["type"] = ScalarType("integer")
    /\ json_schema["type"] = ListType(<<"integer", "null">>)
    /\ ~Has(json_schema, "nullable")

RECURSIVE NullableDropped(_, _)
NullableDropped(in, out) ==
    /\ ~Has(out, "nullable")
    /\ (Has(in, "nullable") /\ ~in["nullable"]) =>
          /\ Has(in, "type") <=> Has(out, "type")
          /\ Has(in, "type") => out["type"] = in["type"]
    /\ Has(in, "properties") =>
          Has(out, "properties") /\ DOMAIN out["properties"] = DOMAIN in["properties"]
    /\ Has(in, "items") => Has(out, "items")
    /\ Has(in, "additionalProperties") =>
          /\ Has(out, "additionalProperties")
          /\ out["additionalProperties"].dict = in["additionalProperties"].dict
    /\ \A c \in ChildPairs(in, out) : NullableDropped(c[1], c[2])

\* C2: the converted schema has no nullable key, at its own level and at every
\* level below it reached through properties, items and additionalProperties;
\* where nullable was false the type is what it was.
C2_NullableRemoved == pc # "start" => NullableDropped(openapi_schema, json_schema)

C2_Witness ==
    /\ pc = "converted"
    /\ Has(openapi_schema, "nullable") /\ ~openapi_schema["nullable"]
    /\ Has(openapi_schema, "type") /\ json_schema["type"] = openapi_schema["type"]
    /\ Has(openapi_schema, "items") /\ Has(openapi_schema["items"], "nullable")
    /\ ~Has(json_schema, "nullable") /\ ~Has(json_schema["items"], "nullable")

\* C3: converting the result of a conversion again, with the same title, gives
\* the same schema.
C3_Idempotent == pc = "reconverted" => json_schema2 = json_schema

C3_Witness ==
    /\ pc = "reconverted"
    /\ Has(openapi_schema, "nullable") /\ openapi_schema["nullable"]
    /\ Has(openapi_schema, "type") /\ ~openapi_schema["type"].list
    /\ Len(json_schema2["type"].v) = 2
    /\ Has(openapi_schema, "properties")

\* C4: the argument of the conversion is, after the call, what it was before.
C4_ArgumentUnchanged == pc # "start" => arg_after = openapi_schema

----------------------------------------------------------------------------
(* Claims about the composite request builder (SpecComposite) *)

OpParams == IF Has(operation, "parameters") THEN operation["parameters"] ELSE <<>>

\* positions of the parameters declared "in: path" and required
ReqPathIdx ==
    {i \in 1..Len(OpParams) : OpParams[i]["in"] = "path" /\ OpParams[i]["required"]}

\* their names in declaration order
IsReqPathNames(r) ==
    /\ Len(r) = Cardinality(ReqPathIdx)
    /\ \E f \in [1..Len(r) -> ReqPathIdx] :
          /\ \A a, b \in 1..Len(r) : a < b => f[a] < f[b]
          /\ \A a \in 1..Len(r) : r[a] = OpParams[f[a]]["name"]

\* the operation has a JSON request body whose schema is a $ref
HasJsonRefBody ==
    /\ Has(operation, "requestBody")
    /\ Has(operation["requestBody"], "content")
    /\ Has(operation["requestBody"]["content"], "application/json")
    /\ Has(operation["requestBody"]["content"]["application/json"], "schema")
    /\ Has(operation["requestBody"]["content"]["application/json"]["schema"], "$ref")

BodyRef == operation["requestBody"]["content"]["application/json"]["schema"]["$ref"]

OpId == IF Has(operation, "operationId") THEN operation["operationId"] ELSE <<>>

DeclaredSchema(param) == IF Has(param, "schema") THEN param["schema"] ELSE StringSchema

C6_CompositeCollapse ==
    (pc # "start" /\ ReqPathIdx = {} /\ HasJsonRefBody) =>
       /\ DOMAIN composite = {"$ref", "title"}
       /\ composite["$ref"] = BodyRef
       /\ composite["title"] = OpId \o Str_Request

C6_Witness ==
    /\ pc = "built"
    /\ OpId = Str_CreateCity
    /\ Len(OpParams) = 1 /\ ~OpParams[1]["required"]
    /\ HasJsonRefBody
    /\ composite = RefSchema(Ref(Str_Content), Str_CreateCity \o Str_Request)

MethodIsPutOrPost == Upper(method) \in {Str_PUT, Str_POST}

IdIsCreateOrUpdate == StartsWith(OpId, Str_Create) \/ StartsWith(OpId, Str_Update)

\* C7 as claimed: a schema {operationId}Request is produced iff the method is
\* PUT or POST, the operationId starts with Create or Update, and there is a
\* required path parameter or a JSON $ref body; so also for an operation with
\* required path parameters and no request body.
C7_AsClaimed ==
    pc = "generated" =>
       /\ DOMAIN composite_schemas \subseteq {OpId \o Str_Request}
       /\ Has(composite_schemas, OpId \o Str_Request)
             <=> /\ MethodIsPutOrPost
                 /\ IdIsCreateOrUpdate
                 /\ (ReqPathIdx # {} \/ HasJsonRefBody)

\* C7 amended: a schema {operationId}Request is produced iff the method is PUT
\* or POST, the operation has a requestBody entry, the operationId starts with
\* Create or Update, and there is a required path parameter or a JSON $ref
\* body.  Nothing else is produced.  With required path parameters and a
\* requestBody that holds no JSON $ref the schema is the composite of the path
\* parameters alone.
C7_Applicability ==
    pc = "generated" =>
       /\ DOMAIN composite_schemas \subseteq {OpId \o Str_Request}
       /\ Has(composite_schemas, OpId \o Str_Request)
             <=> /\ MethodIsPutOrPost
                 /\ Has(operation, "requestBody")
                 /\ IdIsCreateOrUpdate
                 /\ (ReqPathIdx # {} \/ HasJsonRefBody)
       /\ (Has(composite_schemas, OpId \o Str_Request) /\ ~HasJsonRefBody) =>
             /\ DOMAIN composite_schemas[OpId \o Str_Request]["properties"]
                   = {OpParams[i]["name"] : i \in ReqPathIdx}
             /\ IsReqPathNames(composite_schemas[OpId \o Str_Request]["required"])

C7_Witness ==
    /\ pc = "generated"
    /\ MethodIsPutOrPost /\ IdIsCreateOrUpdate
    /\ ReqPathIdx # {}
    /\ ~Has(operation, "requestBody")
    /\ composite_schemas = EmptyDict

----------------------------------------------------------------------------
(* Claims about extract_schemas_from_openapi (Spec) *)

\* the names of the components a schema refers to with an internal $ref, at
\* any depth
RECURSIVE InternalRefs(_)
InternalRefs(schema) ==
    (IF Has(schema, "$ref") /\ StartsWith(schema["$ref"], Str_RefPrefix)
     THEN {LastSegment(schema["$ref"])} ELSE {})
    \cup UNION {InternalRefs(schema["properties"][p]) :
                   p \in IF Has(schema, "properties") THEN DOMAIN schema["properties"] ELSE {}}
    \cup (IF Has(schema, "items") THEN InternalRefs(schema["items"]) ELSE {})
    \cup (IF Has(schema, "additionalProperties") /\ schema["additionalProperties"].dict
          THEN InternalRefs(schema["additionalProperties"].s) ELSE {})

\* the composite request schemas of the run are the keys of composite_schemas
CompositeNames == DOMAIN composite_schemas

\* C8: every composite request schema of the returned set carries x-metadata
\* with composite true and schema_name equal to its key.
C8_CompositeMetadata ==
    pc = "extracted" =>
       \A n \in CompositeNames :
          /\ Has(converted_schemas, n)
          /\ Has(converted_schemas[n], "x-metadata")
          /\ Has(converted_schemas[n]["x-metadata"], "composite")
          /\ converted_schemas[n]["x-metadata"]["composite"] = TRUE
          /\ converted_schemas[n]["x-metadata"]["schema_name"] = n

\* C9 as claimed: no composite request schema of the returned set holds an
\* internal $ref at any depth.
C9_AsClaimed ==
    pc = "extracted" =>
       \A n \in CompositeNames : InternalRefs(converted_schemas[n]) = {}

\* C9 amended: in the returned set, every internal $ref the composite schema
\* was built with (the collapsed reference, the body property, a path
\* parameter's schema) is replaced by the converted component when the
\* component is present.  The internal references that remain are exactly
\* those to absent components and those inside the components that were
\* inlined, which are not expanded.
C9_OneLevelExpanded ==
    pc = "extracted" =>
       \A n \in CompositeNames :
          InternalRefs(converted_schemas[n])
             = (InternalRefs(composite_schemas[n]) \ DOMAIN schemas)
               \cup UNION {InternalRefs(schemas[c]) :
                              c \in InternalRefs(composite_schemas[n]) \cap DOMAIN schemas}

C9_Witness ==
    /\ pc = "extracted"
    /\ Has(composite_schemas, Str_CreateCity \o Str_Request)
    /\ Has(composite_schemas[Str_CreateCity \o Str_Request], "properties")
    /\ InternalRefs(composite_schemas[Str_CreateCity \o Str_Request])
          = {Str_Content, Str_Country}
    /\ Has(schemas, Str_Content) /\ InternalRefs(schemas[Str_Content]) = {}
    /\ InternalRefs(converted_schemas[Str_CreateCity \o Str_Request]) = {}

----------------------------------------------------------------------------
(* Claims about _expand_refs_in_schema followed by conversion (SpecExpand) *)

IsReferenceWithPresentTarget ==
    /\ Has(openapi_schema, "$ref")
    /\ StartsWith(openapi_schema["$ref"], Str_RefPrefix)
    /\ Has(schemas, LastSegment(openapi_schema["$ref"]))

\* C10 as claimed: a reference schema whose target is in the component set,
\* expanded and then converted, has no $ref field.
C10_AsClaimed ==
    (pc = "normalized" /\ IsReferenceWithPresentTarget) => ~Has(json_schema, "$ref")

\* C10 amended: a reference schema whose target is in the component set and is
\* not itself a reference, expanded and then converted, has no $ref field (its
\* fields are those of the converted target; references nested in the target
\* stay).
C10_RoundTrip ==
    (/\ pc = "normalized" /\ IsReferenceWithPresentTarget
     /\ ~Has(schemas[LastSegment(openapi_schema["$ref"])], "$ref"))
    => /\ ~Has(json_schema, "$ref")
       /\ DOMAIN json_schema \ {"title"}
             = ((DOMAIN schemas[LastSegment(openapi_schema["$ref"])] \cup {"$schema"})
                \ (openapi_specific_fields \cup {"nullable", "title"}))

C10_Witness ==
    /\ pc = "normalized"
    /\ IsReferenceWithPresentTarget
    /\ openapi_schema["$ref"] = Ref(Str_Content)
    /\ Has(schemas[Str_Content], "properties")
    /\ InternalRefs(schemas[Str_Content]) = {Str_Country}
    /\ ~Has(json_schema, "$ref")
    /\ InternalRefs(json_schema) = {Str_Country}

----------------------------------------------------------------------------
(* Claims about OpenApiProcessor (SpecEntities) *)

Scanned == pc \in {"scanned", "grouped", "classified"}

Grouped == pc \in {"grouped", "classified"}

Classified == pc = "classified"

\* every schema name of the loaded documents
SchemaNames == UNION {DOMAIN openapi_specs[i].schemas : i \in DOMAIN openapi_specs}

\* the suffix `ResponseContent` or `Response` taken off the end of a name
SuffixStripped(n) ==
    IF EndsWith(n, Str_ResponseContent)
    THEN SubSeq(n, 1, Len(n) - Len(Str_ResponseContent))
    ELSE SubSeq(n, 1, Len(n) - Len(Str_Response))

\* a leading `Get` taken off
GetStripped(n) == IF StartsWith(n, Str_Get) THEN SubSeq(n, Len(Str_Get) + 1, Len(n)) ELSE n

\* C11: the entity universe is exactly the non-empty names obtained from the
\* schema names ending in Response or ResponseContent by stripping that
\* suffix and then a leading Get (CityResponse, GetCityResponse and
\* GetCityResponseContent all give City).
C11_EntityDiscovery ==
    Scanned =>
        Elems(all_entities) =
            {GetStripped(SuffixStripped(n)) :
                n \in {m \in SchemaNames : EndsWith(m, Str_Response)
                                           \/ EndsWith(m, Str_ResponseContent)}}
            \ {<<>>}

\* the five CRUD names of an entity
CrudNames(e) ==
    {Str_Create \o e, Str_Get \o e, Str_Update \o e, Str_Delete \o e,
     Str_List \o e \o Str_s}

\* operation o is in the operation list of entity e
InOperationList(o, e) ==
    /\ e \in DOMAIN entity_operations
    /\ \E k \in DOMAIN entity_operations[e] : entity_operations[e][k] = o

\* entity names asked about: the universe and names that may be outside it
AskedEntities == Elems(all_entities) \cup {Str_City, Str_Location}

\* C12: an operation is in entity E's operation list iff E is in the entity
\* universe and the operationId equals one of Create{E}, Get{E}, Update{E},
\* Delete{E}, List{E}s; an operation matching no entity is in no list, and
\* the lists hold nothing but operations of the scan.
C12_CrudClassification ==
    Grouped =>
        /\ \A i \in DOMAIN all_operations : \A e \in AskedEntities :
               InOperationList(all_operations[i], e)
                   <=> (e \in Elems(all_entities) /\ all_operations[i].id \in CrudNames(e))
        /\ \A e \in DOMAIN entity_operations :
               /\ e \in Elems(all_entities)
               /\ Elems(entity_operations[e]) \subseteq Elems(all_operations)

C12_Witness ==
    /\ Grouped
    /\ Cardinality(DOMAIN entity_operations) >= 2
    /\ \E i \in DOMAIN all_operations :
           \A e \in AskedEntities : ~InOperationList(all_operations[i], e)
    /\ Str_City \notin Elems(all_entities) \/ Str_Location \notin Elems(all_entities)

\* how many entries of a list of operations carry the operationId
Occurrences(operations, id) ==
    Cardinality({k \in DOMAIN operations : operations[k].id = id})

\* C13 as stated: for every entity each of the five CRUD names has at most
\* one entry, also when the operationId occurs in several documents.
C13_AsClaimed ==
    Grouped =>
        \A e \in DOMAIN entity_operations : \A n \in CrudNames(e) :
            Occurrences(entity_operations[e], n) <= 1

\* C13: an entity's operation list holds one entry for every occurrence of
\* one of its CRUD names in the scan, in scan order; a CRUD name has at most
\* one entry when the scan holds it at most once.
C13_EveryOccurrenceListed ==
    Grouped =>
        \A e \in DOMAIN entity_operations :
            /\ entity_operations[e] =
                   SelectSeq(all_operations, LAMBDA o : o.id \in CrudNames(e))
            /\ \A n \in CrudNames(e) :
                   /\ Occurrences(entity_operations[e], n) = Occurrences(all_operations, n)
                   /\ Occurrences(all_operations, n) <= 1
                          => Occurrences(entity_operations[e], n) <= 1

C13_Witness ==
    /\ Grouped
    /\ Str_City \in DOMAIN entity_operations
    /\ \E k, l \in DOMAIN entity_operations[Str_City] :
           /\ k < l
           /\ entity_operations[Str_City][k].id = Str_GetCity
           /\ entity_operations[Str_City][l].id = Str_GetCity
           /\ entity_operations[Str_City][k].service = Str_geo
           /\ entity_operations[Str_City][l].service = Str_users

\* the entity's name occurs in the operationId, letter case ignored
NameOccurs(e, id) ==
    \E i \in 1..(Len(id) - Len(e) + 1) :
        \A k \in 1..Len(e) : LowerChar(id[i + k - 1]) = LowerChar(e[k])

HasKeyword(id) ==
    \/ Contains(id, Str_Cities) \/ Contains(id, Str_Countries)
    \/ Contains(id, Str_Regions) \/ Contains(id, Str_Neighborhoods)

\* the shape of a finder of entity e
FinderOf(id, e) ==
    /\ StartsWith(id, Str_Get)
    /\ Contains(id, Str_By)
    /\ NameOccurs(e, id) \/ (HasKeyword(id) /\ e = Str_Location)

IsComplexOperationOf(id, e) ==
    e \in DOMAIN entity_complex_ops /\ id \in Elems(entity_complex_ops[e])

\* the operationId is in the CRUD list of some entity
ClaimedByAnyEntity(id) ==
    \E e \in DOMAIN entity_operations : id \in Elems(Ids(entity_operations[e]))

\* C14 as stated: an operation is a complex operation of E iff no entity's
\* CRUD list holds it and it is a finder of E.
C14_AsClaimed ==
    Classified =>
        \A i \in DOMAIN all_operations : \A e \in Elems(all_entities) :
            IsComplexOperationOf(all_operations[i].id, e)
                <=> (~ClaimedByAnyEntity(all_operations[i].id)
                     /\ FinderOf(all_operations[i].id, e))

\* C14: an operation is a complex operation of E iff E has a CRUD list, that
\* list of E does not hold the operationId, and it is a finder of E; the
\* complex lists hold nothing but operationIds of the scan.
C14_ComplexClassification ==
    Classified =>
        /\ \A i \in DOMAIN all_operations : \A e \in AskedEntities :
               IsComplexOperationOf(all_operations[i].id, e)
                   <=> (/\ e \in DOMAIN entity_operations
                        /\ all_operations[i].id \notin Elems(Ids(entity_operations[e]))
                        /\ FinderOf(all_operations[i].id, e))
        /\ \A e \in DOMAIN entity_complex_ops :
               Elems(entity_complex_ops[e]) \subseteq Elems(Ids(all_operations))

\* a finder of City that is also the Get operation of another entity
C14_Witness ==
    /\ Classified
    /\ IsComplexOperationOf(Str_GetCityByRegion, Str_City)
    /\ ClaimedByAnyEntity(Str_GetCityByRegion)
    /\ \E e \in Elems(all_entities) : e \notin DOMAIN entity_complex_ops

CityCrudIds == <<Str_CreateCity, Str_GetCity, Str_UpdateCity, Str_DeleteCity, Str_ListCitys>>

\* the operations of the example are the whole scan
CityExample ==
    /\ Classified
    /\ Str_City \in Elems(all_entities)
    /\ Ids(all_operations) = CityCrudIds \o <<Str_GetCitiesByRegion>>

\* C15 as stated: in the example the first five operations are City's CRUD
\* operations and GetCitiesByRegion is a complex operation of City.
C15_AsClaimed ==
    CityExample =>
        /\ Ids(entity_operations[Str_City]) = CityCrudIds
        /\ IsComplexOperationOf(Str_GetCitiesByRegion, Str_City)

\* C15: in the example, alone or followed by GetLocation, the first five
\* operations are City's CRUD operations, City has no complex operation, and
\* GetCitiesByRegion is a complex operation of Location exactly when
\* Location has a CRUD operation, and of no other entity.
C15_CityExample ==
    (/\ Classified
     /\ Str_City \in Elems(all_entities)
     /\ Ids(all_operations) \in {CityCrudIds \o <<Str_GetCitiesByRegion>>,
                                 CityCrudIds \o <<Str_GetCitiesByRegion, Str_GetLocation>>})
    => /\ Ids(entity_operations[Str_City]) = CityCrudIds
       /\ entity_complex_ops[Str_City] = <<>>
       /\ \A e \in AskedEntities :
              IsComplexOperationOf(Str_GetCitiesByRegion, e)
                  <=> (e = Str_Location /\ Str_Location \in DOMAIN entity_operations)

C15_Witness ==
    /\ CityExample
    /\ entity_complex_ops[Str_City] = <<>>
    /\ Ids(entity_operations[Str_City]) = CityCrudIds

\* the Location side of the example
C15_LocationWitness ==
    /\ Classified
    /\ Ids(all_operations) = CityCrudIds \o <<Str_GetCitiesByRegion, Str_GetLocation>>
    /\ Str_City \in DOMAIN entity_complex_ops
    /\ IsComplexOperationOf(Str_GetCitiesByRegion, Str_Location)

\* the places of the scan: document, path item, entry of the path item
ScanPlaces ==
    UNION {UNION {{<<d, p, m>> :
                      m \in {k \in DOMAIN openapi_specs[d].paths[p] :
                                Has(openapi_specs[d].paths[p][k][2], "operationId")}} :
                  p \in DOMAIN openapi_specs[d].paths} :
           d \in DOMAIN openapi_specs}

IdAt(a) == openapi_specs[a[1]].paths[a[2]][a[3]][2]["operationId"]

\* place a is met before place b
Before(a, b) ==
    \/ a[1] < b[1]
    \/ a[1] = b[1] /\ a[2] < b[2]
    \/ a[1] = b[1] /\ a[2] = b[2] /\ a[3] < b[3]

\* C16: for every entity, its complex operations are listed in the order
\* their operations are met when the documents are scanned in load order,
\* the paths of a document top to bottom and the methods of a path in
\* declaration order.
C16_ScanOrder ==
    Classified =>
        \A e \in DOMAIN entity_complex_ops :
            LET places == {a \in ScanPlaces : IdAt(a) \in Elems(entity_complex_ops[e])}
            IN /\ Len(entity_complex_ops[e]) = Cardinality(places)
               /\ \A a \in places :
                      entity_complex_ops[e][1 + Cardinality({b \in places : Before(b, a)})]
                          = IdAt(a)

C16_Witness ==
    /\ Classified
    /\ Len(openapi_specs) = 2
    /\ Str_City \in DOMAIN entity_complex_ops
    /\ entity_complex_ops[Str_City] =
           <<Str_GetCityByRegion, Str_GetCityByName, Str_GetCityByName>>

----------------------------------------------------------------------------
(* Claims about the mapper generators (SpecMapper) *)

Analyzed == pc \in {"analyzed", "mapped"}

\* the property names of the schema with that name, none when it is missing
PropertiesOf(name) ==
    IF name \in DOMAIN analyzer_schemas /\ Has(analyzer_schemas[name], "properties")
    THEN Elems(analyzer_schemas[name]["properties"])
    ELSE {}

\* {lower(E)}Id for the entities of the inputs
OwnKey(e) == IF e = Str_City THEN Str_cityId ELSE Str_countryId

NeverReported(e) == {Str_status, Str_createdAt, Str_updatedAt, OwnKey(e)}

ExpectedUnmapped(prefix) ==
    (PropertiesOf(entity_name) \ PropertiesOf(prefix \o entity_name \o Str_RequestContent))
    \ NeverReported(entity_name)

\* the list holds exactly the fields of the set, each once, in ascending order
ListsInOrder(list, fields) ==
    /\ {list[i].fieldName : i \in DOMAIN list} = fields
    /\ \A i, j \in DOMAIN list : i < j => StrLess(list[i].fieldName, list[j].fieldName)

CityExampleSchemas ==
    /\ entity_name = Str_City
    /\ PropertiesOf(Str_City) = {Str_cityId, Str_name, Str_regionId, Str_createdAt,
                                 Str_updatedAt, Str_status}
    /\ PropertiesOf(Str_Create \o Str_City \o Str_RequestContent) = {Str_name}

\* C17: unmappedTargetFields is domainFields(E) minus the properties of
\* Create{E}RequestContent minus {status, createdAt, updatedAt, {lower(E)}Id},
\* unmappedUpdateFields the same with Update{E}RequestContent, both in
\* lexicographic order; hasUnmappedFields is true iff one of them is not
\* empty; a missing schema counts as having no properties; the City example
\* gives [regionId].
C17_UnmappedFields ==
    Analyzed =>
        /\ ListsInOrder(mapping_analysis.unmappedTargetFields, ExpectedUnmapped(Str_Create))
        /\ ListsInOrder(mapping_analysis.unmappedUpdateFields, ExpectedUnmapped(Str_Update))
        /\ mapping_analysis.hasUnmappedFields
               <=> (mapping_analysis.unmappedTargetFields # <<>>
                    \/ mapping_analysis.unmappedUpdateFields # <<>>)
        /\ CityExampleSchemas
               => mapping_analysis.unmappedTargetFields = <<[fieldName |-> Str_regionId]>>

\* the City example, with no UpdateCityRequestContent in the document
C17_Witness ==
    /\ Analyzed
    /\ CityExampleSchemas
    /\ Str_Update \o Str_City \o Str_RequestContent \notin DOMAIN analyzer_schemas
    /\ mapping_analysis.unmappedTargetFields = <<[fieldName |-> Str_regionId]>>
    /\ mapping_analysis.unmappedUpdateFields =
           <<[fieldName |-> Str_name], [fieldName |-> Str_regionId]>>
    /\ mapping_analysis.hasUnmappedFields

\* the properties of the entity's Create and Update request schemas
RequestProperties ==
    PropertiesOf(Str_Create \o entity_name \o Str_RequestContent)
    \cup PropertiesOf(Str_Update \o entity_name \o Str_RequestContent)

WithoutId(p) == SubSeq(p, 1, Len(p) - Len(Str_Id))

\* C18: for every property P of the entity's Create and Update request
\* schemas that ends in Id and is not {lower(E)}Id, the pair (P -> P without
\* Id) is in relationMappings iff the stripped name is a domain field; no
\* pair has a target that is not a domain field.
C18_RelationMappings ==
    pc = "mapped" =>
        /\ \A p \in RequestProperties :
               (EndsWith(p, Str_Id) /\ p # OwnKey(entity_name))
               => ([sourceField |-> p, targetField |-> WithoutId(p)] \in Elems(relation_mappings)
                   <=> WithoutId(p) \in domain_fields)
        /\ \A i \in DOMAIN relation_mappings :
               relation_mappings[i].targetField \in domain_fields

----------------------------------------------------------------------------
(* Claims about the expansion pass of extract_schemas_from_openapi (Spec) *)

\* a reference to a component that the document does not have
IsAbsentReference(s) ==
    /\ Has(s, "$ref")
    /\ StartsWith(s["$ref"], Str_RefPrefix)
    /\ ~Has(schemas, LastSegment(s["$ref"]))

\* a reference to a component of the document
IsPresentReference(s) ==
    /\ Has(s, "$ref")
    /\ StartsWith(s["$ref"], Str_RefPrefix)
    /\ Has(schemas, LastSegment(s["$ref"]))

\* what the pass made of schema s: kept as it was when its target is absent,
\* replaced by a converted component when its target is present
KeptOrExpanded(s, out) ==
    /\ IsAbsentReference(s) => out = s
    /\ IsPresentReference(s) => (out # s /\ Has(out, "$schema"))

\* C19: in the expansion pass over the composite schemas, a $ref whose target
\* is absent from the component schemas comes back as the same reference
\* schema, at the top of a composite or under its properties, and every other
\* reference of the pass is still replaced by its converted target.
C19_AbsentTargetKept ==
    pc = "extracted" =>
       \A n \in CompositeNames :
          /\ KeptOrExpanded(composite_schemas[n], converted_schemas[n])
          /\ Has(composite_schemas[n], "properties") =>
                /\ Has(converted_schemas[n], "properties")
                /\ DOMAIN converted_schemas[n]["properties"]
                      = DOMAIN composite_schemas[n]["properties"]
                /\ \A p \in DOMAIN composite_schemas[n]["properties"] :
                      KeptOrExpanded(composite_schemas[n]["properties"][p],
                                     converted_schemas[n]["properties"][p])

\* one pass with a composite that is a reference to an absent component and
\* another composite whose body reference is expanded
C19_Witness ==
    /\ pc = "extracted"
    /\ \E n, m \in CompositeNames :
          /\ n # m
          /\ IsAbsentReference(composite_schemas[n])
          /\ converted_schemas[n] = composite_schemas[n]
          /\ Has(composite_schemas[m], "properties")
          /\ Has(composite_schemas[m]["properties"], Str_body)
          /\ IsPresentReference(composite_schemas[m]["properties"][Str_body])
          /\ ~Has(converted_schemas[m]["properties"][Str_body], "$ref")

----------------------------------------------------------------------------
(* Claims about the fake-data generator (SpecFake) *)

\* every $ref of a schema, at any depth
RECURSIVE RefsInside(_)
RefsInside(schema) ==
    (IF Has(schema, "$ref") THEN {schema["$ref"]} ELSE {})
    \cup UNION {RefsInside(c) : c \in SubSchemas(schema)}

\* the reference names a file of the directory
ResolvesToSibling(ref, dir) ==
    /\ SubSeq(ref, 1, Len(Str_RefPrefix)) = Str_RefPrefix
    /\ \E stem \in DOMAIN dir : ref = Str_RefPrefix \o stem

HasUnresolvableRef(schema, dir) ==
    \E ref \in RefsInside(schema) : ~ResolvesToSibling(ref, dir)

\* the request schema files of the services that are worked on
RequestFiles ==
    {<<s, stem>> \in (DOMAIN schemas_dir \ {Str_pycache})
                     \X {Str_CreateCityRequest, Str_UpdateCityRequest} :
        stem \in DOMAIN schemas_dir[s]}

IsWritten(s, stem) == s \in DOMAIN fake_data_dir /\ stem \in DOMAIN fake_data_dir[s]

FilesWritten ==
    {<<s, stem>> \in (DOMAIN schemas_dir \ {Str_pycache})
                     \X {Str_CreateCityRequest, Str_UpdateCityRequest, Str_Old} :
        IsWritten(s, stem)}

----------------------------------------------------------------------------
(* Claims about the run over several documents (SpecLoad) *)

\* a document that cannot be loaded or lacks components or paths
IsMalformedFile(file) ==
    \/ IsUnloadable(file.content)
    \/ ~Has(file.content, "components")
    \/ ~Has(file.content, "paths")

\* the operations and the schema keys the scan holds for one service
OperationsOfService(service) ==
    SelectSeq(all_operations, LAMBDA o : o.service = service)

SchemaKeysOfService(service) ==
    {k \in DOMAIN service_schemas : service_schemas[k].service = service}

\* a document that went through the scan completely
FullyProcessed(file) ==
    /\ OperationsOfService(ExtractServiceNameFromPath(file.stem))
           = OperationsOfSpec(LoadedSpec(file))
    /\ SchemaKeysOfService(ExtractServiceNameFromPath(file.stem))
           = {SchemaKey(ExtractServiceNameFromPath(file.stem), n) :
                  n \in DOMAIN LoadedSpec(file).schemas}

ContributesNothing(file) ==
    /\ OperationsOfService(ExtractServiceNameFromPath(file.stem)) = <<>>
    /\ SchemaKeysOfService(ExtractServiceNameFromPath(file.stem)) = {}

\* C21: in a run over one or more documents the run does not fail; once the
\* documents are scanned, a document that cannot be loaded or that lacks
\* components or paths has contributed no schema and no operation, and
\* every other document has been processed completely.
C21_DocumentIsolation ==
    openapi_files # <<>> =>
        /\ pc # "raised"
        /\ Scanned =>
               \A i \in DOMAIN openapi_files :
                   IF IsMalformedFile(openapi_files[i])
                   THEN ContributesNothing(openapi_files[i])
                   ELSE FullyProcessed(openapi_files[i])

\* the run ended with the exception of an unreadable file although another
\* file of the run is a whole document
C21_RunAborted ==
    /\ pc = "raised"
    /\ run_error = "JSONDecodeError"
    /\ \E i \in DOMAIN openapi_files : ~IsMalformedFile(openapi_files[i])

\* a document without paths has contributed its schemas
C21_SchemasWithoutPaths ==
    /\ Scanned
    /\ \E i \in DOMAIN openapi_files :
           /\ ~IsUnloadable(openapi_files[i].content)
           /\ ~Has(openapi_files[i].content, "paths")
           /\ ~ContributesNothing(openapi_files[i])

----------------------------------------------------------------------------
(* Claims about the recursion over references (SpecWalk) *)

\* the components a schema refers to, at any depth
RECURSIVE ReferencedNames(_)
ReferencedNames(schema) ==
    IF Has(schema, "$ref")
    THEN IF StartsWith(schema["$ref"], Str_RefPrefix)
         THEN {LastSegment(schema["$ref"])} ELSE {}
    ELSE UNION {ReferencedNames(c) : c \in SubSchemas(schema)}

\* the components reached from a set of names in at most n steps
RECURSIVE ReachedFrom(_, _, _)
ReachedFrom(names, components, n) ==
    IF n = 0 THEN names
    ELSE ReachedFrom(names \cup UNION {ReferencedNames(components[m]) :
                                          m \in names \cap DOMAIN components},
                     components, n - 1)

\* the references of the schema lead into a cycle of the component set
LeadsIntoCycle(schema, components) ==
    \E m \in ReachedFrom(ReferencedNames(schema), components, Cardinality(DOMAIN components))
             \cap DOMAIN components :
        m \in ReachedFrom(ReferencedNames(components[m]), components,
                          Cardinality(DOMAIN components))

WalkIntoCycle ==
    \/ pc \in {"expanding", "expanded"} /\ LeadsIntoCycle(openapi_schema, schemas)
    \/ pc \in {"resolving", "resolved"} /\ LeadsIntoCycle(resolve_arg, resolve_dir)

\* C22 as stated: over a component set whose references form a cycle the
\* expansion or resolution of a schema that refers into the cycle never
\* returns normally.
C22_AsClaimed == WalkIntoCycle => pc \notin {"expanded", "resolved"}

\* C22, amended: expansion and resolution return normally for every schema
\* and component set, also when the references form a cycle: every call
\* still to be made is made and the outermost call returns.
C22_WalkReturns == <>(pc \in {"expanded", "resolved"})

\* the expansion of a reference to a component that refers to itself has
\* returned, and the copy still holds the reference that closes the cycle
C22_Witness ==
    /\ pc = "expanded"
    /\ LeadsIntoCycle(openapi_schema, schemas)
    /\ openapi_schema = ("$ref" :> Ref(Str_Content))
    /\ Has(expanded, "properties")
    /\ Has(expanded["properties"][Str_country], "$ref")
    /\ expanded["properties"][Str_country]["$ref"] = Ref(Str_Content)

\* the same for _resolve_refs on a request schema whose body is a reference
\* to a file that refers to itself
C22_ResolveWitness ==
    /\ pc = "resolved"
    /\ LeadsIntoCycle(resolve_arg, resolve_dir)
    /\ resolved # None
    /\ ReferencedNames(resolved) # {}

----------------------------------------------------------------------------
(* Claims about the fields the conversion removes (SpecConvert) *)

DialectFields == {"discriminator", "xml", "externalDocs", "example"}

RECURSIVE DialectStripped(_, _)
DialectStripped(in, out) ==
    /\ DOMAIN out \cap DialectFields = {}
    /\ (Has(in, "additionalProperties") /\ ~in["additionalProperties"].dict) =>
          /\ Has(out, "additionalProperties")
          /\ out["additionalProperties"] = in["additionalProperties"]
    /\ (Has(in, "properties") <=> Has(out, "properties"))
    /\ Has(in, "properties") => DOMAIN out["properties"] = DOMAIN in["properties"]
    /\ (Has(in, "items") <=> Has(out, "items"))
    /\ (Has(in, "additionalProperties") /\ in["additionalProperties"].dict) =>
          Has(out, "additionalProperties") /\ out["additionalProperties"].dict
    /\ \A c \in ChildPairs(in, out) : DialectStripped(c[1], c[2])

\* C23: the converted schema has none of the keys discriminator, xml,
\* externalDocs, example, at its own level and at every level reached through
\* properties, items and a schema under additionalProperties (each of which
\* is still there); a boolean additionalProperties is what it was.
C23_DialectFieldsRemoved == pc # "start" => DialectStripped(openapi_schema, json_schema)

\* a schema with dialect fields two levels down, next to a boolean
\* additionalProperties, has been converted
C23_Witness ==
    /\ pc = "converted"
    /\ Has(openapi_schema, "items")
    /\ Has(openapi_schema["items"], "discriminator")
    /\ Has(openapi_schema["items"], "externalDocs")
    /\ Has(openapi_schema["items"], "additionalProperties")
    /\ openapi_schema["items"]["additionalProperties"] = BoolAP(FALSE)
    /\ json_schema["items"]["additionalProperties"] = BoolAP(FALSE)
    /\ DOMAIN json_schema["items"] \cap DialectFields = {}
    /\ Has(openapi_schema, "example") /\ Has(openapi_schema, "xml")
    /\ ~Has(json_schema, "example") /\ ~Has(json_schema, "xml")

----------------------------------------------------------------------------
(* Claims about generate_schemas (SpecGenerate) *)

ComponentsOfFile(file) ==
    Get(Get(file.content, "components", EmptyDict), "schemas", EmptyDict)

\* the file is read and has component schemas
Contributes(file) ==
    /\ IsOpenApiFile(file)
    /\ ~IsUnloadable(file.content)
    /\ ComponentsOfFile(file) # EmptyDict

\* the converted component schemas of a file, and its expanded composite
\* request schemas
ComponentOutput(file) ==
    ConvertComponents(ComponentsOfFile(file), CreateMetadata(file.name), file.name)

CompositeOutput(file) ==
    ExpandAll(GenerateComposites(Get(file.content, "paths", <<>>), CreateMetadata(file.name)),
              ComponentsAfterConvert(ComponentsOfFile(file)))

NamesOfFile(file) ==
    IF Contributes(file)
    THEN DOMAIN ComponentOutput(file) \cup DOMAIN CompositeOutput(file)
    ELSE {}

\* the schema a file gives for a name: the composite schema when there is one
SchemaOfFile(file, n) ==
    IF n \in DOMAIN CompositeOutput(file)
    THEN CompositeOutput(file)[n]
    ELSE ComponentOutput(file)[n]

\* the last file of the list that gives a schema for the name
LastFileWith(files, n) ==
    files[CHOOSE i \in DOMAIN files :
              /\ n \in NamesOfFile(files[i])
              /\ \A j \in DOMAIN files : n \in NamesOfFile(files[j]) => j <= i]

\* C24: a run over one or more directories does not raise, and when it has
\* returned the output set of every service holds, for every schema name a
\* file of the service gives, the schema of the last such file in processing
\* order; the schema of a file for the name of one of its composite request
\* schemas is the composite schema, also when the file has a component of
\* that name.
C24_LastWriteWins ==
    /\ openapi_dirs # <<>> => pc # "raised"
    /\ pc = "generated" =>
          \A d \in DOMAIN openapi_dirs :
              LET files == openapi_dirs[d].files
                  service == openapi_dirs[d].service_name
                  names == UNION {NamesOfFile(files[i]) : i \in DOMAIN files}
              IN IF names = {}
                 THEN service \notin DOMAIN generated_schemas
                 ELSE /\ service \in DOMAIN generated_schemas
                      /\ DOMAIN generated_schemas[service] = names
                      /\ \A n \in names :
                            generated_schemas[service][n]
                                = SchemaOfFile(LastFileWith(files, n), n)

\* two files of geo: both have a component Content, the first gives the bare
\* composite schema CreateCityRequest, the second a component of that name and
\* the wrapped composite schema; the output holds Content of the second file
\* and the wrapped composite schema
C24_Witness ==
    /\ pc = "generated"
    /\ Len(openapi_dirs) = 1
    /\ Len(openapi_dirs[1].files) = 2
    /\ Str_Content \in DOMAIN ComponentsOfFile(openapi_dirs[1].files[1])
    /\ Str_CreateCityRequest \in DOMAIN CompositeOutput(openapi_dirs[1].files[1])
    /\ Str_Content \in DOMAIN ComponentsOfFile(openapi_dirs[1].files[2])
    /\ Str_CreateCityRequest \in DOMAIN ComponentsOfFile(openapi_dirs[1].files[2])
    /\ Str_CreateCityRequest \in DOMAIN CompositeOutput(openapi_dirs[1].files[2])
    /\ generated_schemas[Str_geo][Str_Content]["x-metadata"]["original_file"] = Str_SecondFile
    /\ DOMAIN generated_schemas[Str_geo][Str_CreateCityRequest]["properties"]
          = {Str_cityId, Str_body}
    /\ generated_schemas[Str_geo][Str_CreateCityRequest]
          # ComponentOutput(openapi_dirs[1].files[2])[Str_CreateCityRequest]
    /\ generate_result = <<2, 1>>

----------------------------------------------------------------------------
(* Claims about the test generator (SpecTests) *)

\* C25: the operations the test generator finds for an entity are the
\* operations of the scan whose operationId is one of the five CRUD names of
\* the entity, which are the operations the grouping lists for it.
C25_SameCrudOperations ==
    pc = "tested" =>
        /\ test_operations
              = SelectSeq(all_operations, LAMBDA o : o.id \in CrudNames(test_entity))
        /\ test_entity \in DOMAIN entity_operations =>
              test_operations = entity_operations[test_entity]
        /\ test_entity \notin DOMAIN entity_operations => test_operations = <<>>

\* the test generator has attributed GetCityByName to City, which the
\* grouping does not list for City
C25_PrefixAttributed ==
    /\ pc = "tested"
    /\ test_entity = Str_City
    /\ \E i \in DOMAIN test_operations : test_operations[i].id = Str_GetCityByName
    /\ Str_City \in DOMAIN entity_operations
    /\ \A i \in DOMAIN entity_operations[Str_City] :
          entity_operations[Str_City][i].id # Str_GetCityByName

----------------------------------------------------------------------------
(* Claims about the composite request classes (SpecDto) *)

\* the property names of a composite schema as it is built, before expansion
PropertyNamesOf(schema) ==
    IF Has(schema, "properties") THEN DOMAIN schema["properties"] ELSE {}

FieldNamesOf(dto) == {dto.vars[i].name : i \in DOMAIN dto.vars}

\* C26: for a PUT or POST operation whose operationId starts with Create or
\* Update, the class {operationId}Request is emitted iff the composite schema
\* {operationId}Request is, and the field names of the class are the
\* property names of the composite schema; with no required path parameter
\* neither has a body field.
C26_SameCompositePolicy ==
    (pc = "emitted" /\ MethodIsPutOrPost /\ IdIsCreateOrUpdate) =>
        /\ (OpId \o Str_Request \in DOMAIN dto_fields)
               <=> (OpId \o Str_Request \in DOMAIN composite_schemas)
        /\ OpId \o Str_Request \in DOMAIN dto_fields =>
              FieldNamesOf(dto_fields[OpId \o Str_Request])
                  = PropertyNamesOf(composite_schemas[OpId \o Str_Request])
        /\ (ReqPathIdx = {} /\ OpId \o Str_Request \in DOMAIN dto_fields) =>
              Str_body \notin FieldNamesOf(dto_fields[OpId \o Str_Request])

\* with no required path parameter the class has the single field body and
\* the composite schema is the bare reference
C26_DtoWrapsAlone ==
    /\ pc = "emitted"
    /\ MethodIsPutOrPost
    /\ Has(operation, "operationId") /\ OpId = Str_CreateCity
    /\ ReqPathIdx = {}
    /\ Str_CreateCityRequest \in DOMAIN composite_schemas
    /\ Str_CreateCityRequest \in DOMAIN dto_fields
    /\ composite_schemas[Str_CreateCityRequest]["$ref"] = Ref(Str_Content)
    /\ ~Has(composite_schemas[Str_CreateCityRequest], "properties")
    /\ FieldNamesOf(dto_fields[Str_CreateCityRequest]) = {Str_body}

\* with a required path parameter the class and the composite schema have
\* the same names
C26_SameNamesWhenWrapped ==
    (pc = "emitted" /\ MethodIsPutOrPost /\ IdIsCreateOrUpdate /\ ReqPathIdx # {}) =>
        /\ (OpId \o Str_Request \in DOMAIN dto_fields)
               <=> (OpId \o Str_Request \in DOMAIN composite_schemas)
        /\ OpId \o Str_Request \in DOMAIN dto_fields =>
              FieldNamesOf(dto_fields[OpId \o Str_Request])
                  = PropertyNamesOf(composite_schemas[OpId \o Str_Request])

----------------------------------------------------------------------------
(* Claims about the grouping and the iteration order (SpecEntities) *)

\* the entities whose operation list holds the operation
EntitiesListing(o) ==
    {e \in DOMAIN entity_operations :
        \E k \in DOMAIN entity_operations[e] : entity_operations[e][k] = o}

RECURSIVE TotalLength(_, _)
TotalLength(lists, keys) ==
    IF keys = {} THEN 0
    ELSE LET e == CHOOSE k \in keys : TRUE
         IN Len(lists[e]) + TotalLength(lists, keys \ {e})

\* C27: every operation is in the operation list of at most one entity, the
\* lists together hold no more entries than the scan has operations, and
\* the grouping is the same for every order the entity universe can be
\* listed in.
C27_GroupingDeterministic ==
    Grouped =>
        /\ \A i \in DOMAIN all_operations :
              Cardinality(EntitiesListing(all_operations[i])) <= 1
        /\ TotalLength(entity_operations, DOMAIN entity_operations) <= Len(all_operations)
        /\ \A order \in Orderings(Elems(all_entities)) :
              GroupOperationsByEntity(all_operations, order) = entity_operations

\* the universe holds City and CityByRegion, listed with CityByRegion first,
\* and GetCityByRegion and GetCity are among the operations grouped
C27_Witness ==
    /\ pc = "grouped"
    /\ all_entities = <<Str_City \o Str_By \o Str_Region, Str_City>>
    /\ \E i \in DOMAIN all_operations : all_operations[i].id = Str_GetCityByRegion
    /\ Str_City \in DOMAIN entity_operations
    /\ Str_City \o Str_By \o Str_Region \in DOMAIN entity_operations

----------------------------------------------------------------------------
(* Claims about the keys of the complex-operation mapping (SpecEntities) *)

CrudIdsOf(e) == {entity_operations[e][k].id : k \in DOMAIN entity_operations[e]}

\* C28: the mapping returned by find_complex_operations has the keys of the
\* CRUD grouping: an entity of the universe without CRUD operation has no
\* entry, Location included, whatever the operations say; every entity with
\* a CRUD operation has one, which may be empty; and no operationId of an
\* entity's complex list is in its CRUD list.
C28_ComplexKeys ==
    Classified =>
        /\ DOMAIN entity_complex_ops = DOMAIN entity_operations
        /\ \A e \in Elems(all_entities) :
              (e \in DOMAIN entity_complex_ops) <=>
                  \E i \in DOMAIN all_operations : all_operations[i].id \in CrudNames(e)
        /\ \A e \in DOMAIN entity_complex_ops :
              \A i \in DOMAIN entity_complex_ops[e] :
                  entity_complex_ops[e][i] \notin CrudIdsOf(e)

\* Location is in the universe and GetCitiesByRegion among the operations,
\* but Location has no CRUD operation and so no entry; City has its CRUD
\* operations and an entry
C28_Witness ==
    /\ pc = "classified"
    /\ Str_Location \in Elems(all_entities)
    /\ \E i \in DOMAIN all_operations : all_operations[i].id = Str_GetCitiesByRegion
    /\ Str_Location \notin DOMAIN entity_complex_ops
    /\ Str_City \in DOMAIN entity_complex_ops
    /\ Str_GetCity \in CrudIdsOf(Str_City)

\* an entity with a CRUD operation and an empty list of complex operations
C28_EmptyEntry ==
    /\ pc = "classified"
    /\ \E e \in DOMAIN entity_complex_ops : entity_complex_ops[e] = <<>>

----------------------------------------------------------------------------
(* Claims about required and properties of a wrapped composite schema      *)
(* (SpecComposite)                                                         *)

Wrapped == pc # "start" /\ composite # None /\ Has(composite, "properties")

TimesListed(seq, x) == Cardinality({i \in DOMAIN seq : seq[i] = x})

\* C29: in a wrapped composite schema required lists every key of properties
\* exactly once and nothing else, also when two required path parameters
\* share a name or one is named body, and a body property refers to the
\* schema of the request body.
C29_RequiredMatchesProperties ==
    Wrapped =>
        /\ \A n \in DOMAIN composite["properties"] :
              TimesListed(composite["required"], n) = 1
        /\ Elems(composite["required"]) \subseteq DOMAIN composite["properties"]
        /\ Str_body \in DOMAIN composite["properties"] =>
              /\ HasJsonRefBody
              /\ composite["properties"][Str_body] = RefSchema(BodyRef, Str_body)

\* what the builder does keep: required and properties hold the same names,
\* and with a referenced JSON body the body property is that reference
C29_SameNames ==
    Wrapped =>
        /\ Elems(composite["required"]) = DOMAIN composite["properties"]
        /\ HasJsonRefBody =>
              composite["properties"][Str_body] = RefSchema(BodyRef, Str_body)

\* two required path parameters named cityId: one property, listed twice
C29_RepeatedName ==
    /\ Wrapped
    /\ TimesListed(composite["required"], Str_cityId) = 2

\* a required path parameter named body and a referenced JSON body
C29_BodyListedTwice ==
    /\ Wrapped /\ HasJsonRefBody
    /\ TimesListed(composite["required"], Str_body) = 2

\* a required path parameter named body and no referenced JSON body: the body
\* property is the schema of the parameter
C29_BodyIsParameter ==
    /\ Wrapped /\ ~HasJsonRefBody
    /\ Str_body \in DOMAIN composite["properties"]
    /\ composite["properties"][Str_body] = StringSchema

----------------------------------------------------------------------------
(* Claims about the contents of the fake-data directories (SpecFake) *)

\* a stem that contains Request and neither Response nor Content
ConsideredStem(stem) ==
    /\ Contains(stem, Str_Request)
    /\ ~Contains(stem, Str_Response)
    /\ ~Contains(stem, Str_ContentSuffix)

\* C30: after generate_fake_data the fake-data directory of every service
\* directory holds {stem}.json only for request schemas of this run (stem
\* with Request and neither Response nor Content) whose references resolve
\* and for which the library gave data; nothing of an earlier run is left,
\* and a service without request schema has no fake-data directory.
C30_FakeDataCleaned ==
    pc = "generated" =>
        \A s \in DOMAIN schemas_dir \ {Str_pycache} :
            /\ (\A stem \in DOMAIN schemas_dir[s] : ~ConsideredStem(stem))
                  => s \notin DOMAIN fake_data_dir
            /\ s \in DOMAIN fake_data_dir =>
                  \A stem \in DOMAIN fake_data_dir[s] :
                      /\ stem \in DOMAIN schemas_dir[s]
                      /\ ConsideredStem(stem)
                      /\ jsf[stem] = "data"
                      /\ ~HasUnresolvableRef(schemas_dir[s][stem], schemas_dir[s])

\* an earlier run left CreateCityRequest.json and Old.json in the fake-data
\* directories; now CreateCityRequest holds a reference that does not resolve
\* and nothing is named Old: the directory of geo holds UpdateCityRequest.json
\* alone, and the directory of users, whose only file is a response schema,
\* is gone
C30_Witness ==
    /\ pc = "generated"
    /\ DOMAIN schemas_dir = {Str_geo, Str_users}
    /\ DOMAIN schemas_dir[Str_users] = {Str_UpdateCityRequest \o Str_Response}
    /\ Str_CreateCityRequest \in DOMAIN schemas_dir[Str_geo]
    /\ Str_Content \in DOMAIN schemas_dir[Str_geo]
    /\ HasUnresolvableRef(schemas_dir[Str_geo][Str_CreateCityRequest], schemas_dir[Str_geo])
    /\ jsf[Str_CreateCityRequest] = "data"
    /\ DOMAIN fake_data_dir = {Str_geo}
    /\ DOMAIN fake_data_dir[Str_geo] = {Str_UpdateCityRequest}
    /\ total_files = 1

====
